---------------------------- MODULE Spec2Model ----------------------------
(***************************************************************************)
(* Verification model of the bucket compactor (pkg/compactor              *)
(* bucket_compactor.go, stored as src/pkg/api/index.gohtml from line 43). *)
(*                                                                         *)
(* The module holds several state machines over one set of variables:     *)
(*   SpecErr  - the error classification functions (halt, retry,          *)
(*              IsHaltError, IsRetryError) applied to bounded errors;      *)
(*   SpecJob  - one execution of BucketCompactor.runCompactionJob;         *)
(*   SpecGC   - Syncer.SyncMetas and Syncer.GarbageCollect;                *)
(*   Spec     - BucketCompactor.Compact: scheduler, worker pool, channels. *)
(* A specification leaves the variables of the other machines untouched.  *)
(***************************************************************************)
EXTENDS Integers, Sequences, FiniteSets, TLC

VARIABLES
    \* ---- error classification harness (SpecErr)
    recipe,     \* how the error under test was built: <<[k |-> class, w |-> wraps]>>,
                \* or (SpecVerify) the block and what its download and checks find
    isMulti,    \* TRUE when the error under test is a multi-error of the recipe
    err,        \* the error under test
    res,        \* the error the last operation returned
    op,         \* the last operation applied to err
    cls,        \* what IsHaltError and IsRetryError answered in that operation
    \* ---- the bucket
    bktBlocks,      \* IDs of the blocks uploaded in full (meta.json present)
    bktPartial,     \* IDs of blocks an aborted upload left in part
    bktDelMarks,    \* IDs with a deletion-mark.json
    numSamples,     \* meta.Stats.NumSamples of each input block
    \* ---- one runCompactionJob call (SpecJob)
    job,            \* the *Job: [key, metas, useSplitting, splitNumShards]
    jpc,            \* where the call is
    subDir,         \* TRUE while <compactDir>/<job.Key()> exists
    rmAll,          \* the deferred os.RemoveAll(subDir): "none", "ok", "err"
    delTried,       \* IDs of the blocks deleteBlock was called for
    toCompact,      \* the plan: block IDs in the planner's order
    dl,             \* per planned block: state of its download-and-verify function
    grpErr,         \* the first error of the running concurrency.ForEach
    compIDs,        \* the merger's output IDs, 0 for the zero ULID
    up,             \* per output: state of its finalize-and-upload function
    ri,             \* index of the next input the marking loop handles
    shouldRerun,    \* returned shouldRerun
    retIDs,         \* returned compIDs
    rerr,           \* returned error
    \* ---- the Syncer and its filters
    blocks,         \* Syncer.blocks: IDs of the snapshot
    partial,        \* Syncer.partial: IDs of the partial blocks
    dupIDs,         \* deduplicateBlocksFilter.DuplicateIDs() of the last Fetch
    delMarkMap,     \* ignoreDeletionMarkFilter.DeletionMarkBlocks() of the last Fetch
    garbageIDs,     \* GarbageCollect's garbageIDs
    gi,             \* index of the next garbage ID GarbageCollect handles
    gcStart,        \* the snapshot and the bucket's marks when GarbageCollect began
    \* ---- one Compact call (Spec)
    cpc,            \* where the Scheduler (the goroutine running Compact) is; once
                    \* Compact has returned, the return statement it took
    ctxDone,        \* TRUE once the caller's context is cancelled
    crerr,          \* the error Compact returned
    skipOOO,        \* BucketCompactor.skipBlocksWithOutOfOrderChunks
    timer,          \* maxCompactionTimeChan: "none", "armed", "fired", "taken"
    iter,           \* number of the iteration of the outer loop
    jobs,           \* the jobs of this iteration, in dispatch order
    notOwned,       \* keys of the jobs ownJob reported not owned in this iteration
    ji,             \* index of the next job the jobLoop sends
    wpc,            \* per worker: where its goroutine is
    wjob,           \* per worker: the job g it received
    errChan,        \* the buffered error channel
    reported,       \* the errors the workers of this iteration sent on errChan
    rerun,          \* TRUE once a job of this iteration asked for another pass
    jobErrs,        \* the Scheduler's errutil.MultiError
    finishedAllJobs,
    maxCompactionTimeReached,
    workDirs,       \* keys of the jobs of this iteration that returned an error,
                    \* and whose directory no os.RemoveAll was called on since
    rmCompactDir,   \* Compact's deferred os.RemoveAll(compactDir): "none", "ok", "err"
    \* ---- one call of DefaultGrouper.Groups (SpecGroups)
    gpc,            \* where the call is: "idle", "range", "done"
    metaLabels,     \* per block: m.Thanos.Labels, as the number of a label set
    metaRes,        \* per block: m.Thanos.Downsample.Resolution
    grpBlocks,      \* the blocks argument: IDs of the metas
    grpLeft,        \* the entries of blocks the range loop has not visited
    grpRes,         \* res: the jobs, in the order they were created
    grpRet,         \* the error Groups returned
    \* ---- several compactor instances on one bucket (SpecOwn)
    oracle,         \* what ownJob answers from: the instance that owns the job
                    \* key, and the number of times the ownership has moved
    inst,           \* per instance: where it is with the job, the blocks it
                    \* planned, the epoch of its ownership check, its output
    \* ---- one worker with the result of a job, RepairIssue347 (SpecWorker)
    bktNoCompact,   \* IDs with a no-compact-mark.json
    hpc,            \* where the worker is with the result of runCompactionJob
    hres,           \* that result: [sr, ids, e]
    rpc,            \* where the call of RepairIssue347 is
    issue347Err,    \* RepairIssue347's argument
    resid,          \* the ID block.Repair gave the repaired block, 0 before
    rperr,          \* the error RepairIssue347 returned
    \* ---- one call of NoCompactionMarkFilter.Filter (SpecFilter)
    bktBadMarks,    \* IDs whose no-compact-mark.json cannot be parsed
    removeNoCompactBlocks,
    noCompactMarkedMap,     \* f.noCompactMarkedMap: its keys
    filterMetas,    \* the metas argument: its keys
    fpc,            \* where the call is: "idle", "call", "foreach", "done"
    fch,            \* the IDs still in ForEach's channel
    fgo,            \* per goroutine of ForEach: [st, id]
    fgErr,          \* the first error a goroutine of ForEach returned
    probed,         \* per input ID: how ReadMarker ended for it, "none" before
    fret,           \* the error Filter returned
    \* ---- WriteReadSeriesTest, the continuous test (SpecTest)
    lastWrittenTimestamp,   \* times are counted in units of 10 seconds from
    queryMinTime,           \* the zero time.Time, which is 0
    queryMaxTime,
    tpc,            \* where Run is: "idle", "write", "query"
    now,            \* Run's argument, the one of the last call when idle
    timestamp,      \* the timestamp of the last call of WriteSeries
    statusCode,     \* what that call returned
    writeErr,       \* TRUE iff it returned an error
    accepted,       \* the timestamps the client answered with 2xx and no error
    queried,        \* the range of the last range query of this Run, or << >>
    \* ---- BucketCompactorMetrics (followed in SpecWorker and SpecJob)
    groupCompactionRunsStarted,
    groupCompactionRunsCompleted,
    groupCompactionRunsFailed,
    groupCompactions,
    garbageCollectedBlocks      \* c.metrics.garbageCollectedBlocks

errVars == <<recipe, isMulti, err, res, op, cls>>

bktVars == <<bktBlocks, bktPartial, bktDelMarks, numSamples>>

jobVars == <<job, jpc, subDir, rmAll, delTried, toCompact, dl, grpErr, compIDs, up, ri,
             shouldRerun, retIDs, rerr>>

syVars == <<blocks, partial, dupIDs, delMarkMap, garbageIDs, gi, gcStart>>

\* The worker pool, the channels and the Scheduler's locals.
poolVars == <<skipOOO, timer, iter, jobs, notOwned, ji, wpc, wjob, errChan,
              reported, rerun, jobErrs, finishedAllJobs, maxCompactionTimeReached, workDirs, rmCompactDir>>

schedVars == <<cpc, ctxDone, crerr, skipOOO, timer, iter, jobs, notOwned, ji,
               wpc, wjob, errChan, reported, rerun, jobErrs, finishedAllJobs,
               maxCompactionTimeReached, workDirs, rmCompactDir>>

grpVars == <<gpc, metaLabels, metaRes, grpBlocks, grpLeft, grpRes, grpRet>>

ownVars == <<oracle, inst>>

wkVars == <<bktNoCompact, hpc, hres, rpc, issue347Err, resid, rperr>>

fltVars == <<bktBadMarks, removeNoCompactBlocks, noCompactMarkedMap, filterMetas, fpc,
             fch, fgo, fgErr, probed, fret>>

testVars == <<lastWrittenTimestamp, queryMinTime, queryMaxTime, tpc, now, timestamp,
              statusCode, writeErr, accepted, queried>>

runVars == <<groupCompactionRunsStarted, groupCompactionRunsCompleted,
             groupCompactionRunsFailed, groupCompactions>>

metVars == <<runVars, garbageCollectedBlocks>>

vars == <<errVars, bktVars, jobVars, syVars, schedVars, grpVars, ownVars, wkVars,
          fltVars, testVars, metVars>>

----------------------------------------------------------------------------
(***************************************************************************)
(* Bounds of the model.                                                    *)
(***************************************************************************)
MaxWrap == 1        \* message wrappers (errors.Wrap) put around one error
MaxChildren == 2    \* children of a multi-error
MaxBlocks == 2      \* input blocks in the bucket
MaxShards == 2      \* largest SplittingShards of a job
Concurrency == 2    \* BucketCompactor.concurrency, the size of the worker pool
MaxIter == 2        \* iterations of Compact's outer loop that are followed
MaxLabels == 1      \* external label sets are numbered 0..MaxLabels
MaxRes == 1         \* downsample resolutions are numbered 0..MaxRes
MaxInstances == 2   \* compactor instances on the same bucket
MaxEpoch == 2       \* times the ownership of a job key moves
MaxFanOut == 2      \* NoCompactionMarkFilter.concurrency is in 1..MaxFanOut
MaxNow == 8         \* the latest time Run is called at, in units of 10 seconds
MaxRuns == 1        \* runs of runCompactionJob counted before the one followed

----------------------------------------------------------------------------
(***************************************************************************)
(* Errors.  A Go error value is the sequence of its layers, outermost     *)
(* first; the inner error of a layer is the rest of the sequence.  nil is *)
(* the empty sequence.  Layer kinds:                                      *)
(*   "msg"   errors.Wrap / errors.Wrapf (has a Cause() method)            *)
(*   "halt"  HaltError         "retry" RetryError                         *)
(*   "i347"  Issue347Error     "ooo"   OutOfOrderChunksError              *)
(*   "plain" an error of a collaborator (bucket, fetcher, tsdb)           *)
(*   "ctx"   ctx.Err(), the context's own error                           *)
(*   "multi" errutil.NonNilMultiError; ch holds its children              *)
(* HaltError, RetryError, Issue347Error and OutOfOrderChunksError have no *)
(* Cause() method, so errors.Cause stops at them.                         *)
(***************************************************************************)
Nil == << >>

Layer(t, id) == [t |-> t, id |-> id, ch |-> << >>]

Plain == << Layer("plain", 0) >>

CtxErr == << Layer("ctx", 0) >>

\* errors.Wrap(err, msg) and errors.Wrapf: nil stays nil.
Wrap(e) == IF e = Nil THEN Nil ELSE << Layer("msg", 0) >> \o e

\* errors.Wrapf(err, format, id): a message wrapper whose text names id.
Wrapf(e, id) == IF e = Nil THEN Nil ELSE << Layer("msg", id) >> \o e

\* errors.Cause: follows Cause() through the message wrappers.
RECURSIVE Cause(_)
Cause(e) == IF e = Nil THEN Nil
            ELSE IF Head(e).t = "msg" THEN Cause(Tail(e))
            ELSE e

\* A type assertion errors.Cause(err).(T) on an already unwrapped error.
HasType(c, t) == c # Nil /\ Head(c).t = t

halt(e) == << Layer("halt", 0) >> \o e

issue347Error(e, brokenBlock) == << Layer("i347", brokenBlock) >> \o e

outOfOrderChunkError(e, brokenBlock) == << Layer("ooo", brokenBlock) >> \o e

IsIssue347Error(e) == HasType(Cause(e), "i347")

IsOutOfOrderChunkError(e) == HasType(Cause(e), "ooo")

\* errutil.NonNilMultiError(es)
NonNilMultiError(es) == << [t |-> "multi", id |-> 0, ch |-> es] >>

\* errutil.MultiError.Add: nil is dropped, a bare multi-error is flattened.
MultiAdd(es, e) ==
    IF e = Nil THEN es
    ELSE IF HasType(e, "multi") THEN es \o Head(e).ch
    ELSE Append(es, e)

\* errutil.MultiError.Err
MultiErr(es) == IF Len(es) = 0 THEN Nil ELSE NonNilMultiError(es)

\* A mutant of IsHaltError: the multi-error is not traversed.
IsHaltErrorNoTraverse(e) == HasType(Cause(e), "halt")

IsHaltError(e) ==
    IF HasType(Cause(e), "multi")
    THEN \E i \in 1..Len(Head(Cause(e)).ch) :
            HasType(Cause(Head(Cause(e)).ch[i]), "halt")
    ELSE HasType(Cause(e), "halt")

\* A mutant of retry: a Halt error is wrapped like any other.
retryAlwaysWraps(e) == << Layer("retry", 0) >> \o e

retry(e) ==
    IF IsHaltError(e) THEN e
    ELSE << Layer("retry", 0) >> \o e

\* A mutant of IsRetryError: one retriable child makes a multi-error Retry.
IsRetryErrorSome(e) ==
    IF HasType(Cause(e), "multi")
    THEN \E i \in 1..Len(Head(Cause(e)).ch) :
            HasType(Cause(Head(Cause(e)).ch[i]), "retry")
    ELSE HasType(Cause(e), "retry")

IsRetryError(e) ==
    IF HasType(Cause(e), "multi")
    THEN \A i \in 1..Len(Head(Cause(e)).ch) :
            HasType(Cause(Head(Cause(e)).ch[i]), "retry")
    ELSE HasType(Cause(e), "retry")

----------------------------------------------------------------------------
(***************************************************************************)
(* The values the variables of a machine hold while another machine runs. *)
(***************************************************************************)
BlockIDs == 1..MaxBlocks

NoJob == [key |-> << >>, metas |-> << >>, useSplitting |-> FALSE, splitNumShards |-> 0]

IdleErr ==
    /\ recipe = << >>
    /\ isMulti = FALSE
    /\ err = Nil
    /\ res = Nil
    /\ op = "idle"
    /\ cls = [halt |-> FALSE, retry |-> FALSE]

IdleBucket ==
    /\ bktBlocks = {}
    /\ bktPartial = {}
    /\ bktDelMarks = {}
    /\ numSamples = [b \in BlockIDs |-> 1]

IdleJob ==
    /\ job = NoJob
    /\ jpc = "idle"
    /\ subDir = FALSE
    /\ rmAll = "none"
    /\ delTried = {}
    /\ toCompact = << >>
    /\ dl = << >>
    /\ grpErr = Nil
    /\ compIDs = << >>
    /\ up = << >>
    /\ ri = 0
    /\ shouldRerun = FALSE
    /\ retIDs = << >>
    /\ rerr = Nil

IdleSyncer ==
    /\ blocks = {}
    /\ partial = {}
    /\ dupIDs = << >>
    /\ delMarkMap = {}
    /\ garbageIDs = << >>
    /\ gi = 0
    /\ gcStart = [blocks |-> {}, marks |-> {}]

Workers == 1..Concurrency

IdleSched ==
    /\ cpc = "idle"
    /\ ctxDone = FALSE
    /\ crerr = Nil
    /\ skipOOO = FALSE
    /\ timer = "none"
    /\ iter = 0
    /\ jobs = << >>
    /\ notOwned = {}
    /\ ji = 0
    /\ wpc = [w \in Workers |-> "recv"]
    /\ wjob = [w \in Workers |-> NoJob]
    /\ errChan = << >>
    /\ reported = {}
    /\ rerun = FALSE
    /\ jobErrs = << >>
    /\ finishedAllJobs = TRUE
    /\ maxCompactionTimeReached = FALSE
    /\ workDirs = {}
    /\ rmCompactDir = "none"

IdleGrouper ==
    /\ gpc = "idle"
    /\ metaLabels = [b \in BlockIDs |-> 0]
    /\ metaRes = [b \in BlockIDs |-> 0]
    /\ grpBlocks = {}
    /\ grpLeft = {}
    /\ grpRes = << >>
    /\ grpRet = Nil

Instances == 1..MaxInstances

NoRun == [pc |-> "idle", key |-> << >>, metas |-> << >>, plan |-> << >>, at |-> 0,
          out |-> 0]

IdleOwn ==
    /\ oracle = [owner |-> 1, epoch |-> 0]
    /\ inst = [i \in Instances |-> NoRun]

NoResult == [sr |-> FALSE, ids |-> << >>, e |-> << >>]

IdleWorker ==
    /\ bktNoCompact = {}
    /\ hpc = "idle"
    /\ hres = NoResult
    /\ rpc = "idle"
    /\ issue347Err = << >>
    /\ resid = 0
    /\ rperr = << >>

IdleFilter ==
    /\ bktBadMarks = {}
    /\ removeNoCompactBlocks = FALSE
    /\ noCompactMarkedMap = {}
    /\ filterMetas = {}
    /\ fpc = "idle"
    /\ fch = {}
    /\ fgo = << >>
    /\ fgErr = << >>
    /\ probed = << >>
    /\ fret = << >>

\* NewWriteReadSeriesTest: the three timestamps are zero, Run was not called.
IdleTest ==
    /\ lastWrittenTimestamp = 0
    /\ queryMinTime = 0
    /\ queryMaxTime = 0
    /\ tpc = "idle"
    /\ now = 0
    /\ timestamp = 0
    /\ statusCode = 0
    /\ writeErr = FALSE
    /\ accepted = {}
    /\ queried = << >>

\* NewBucketCompactorMetrics: nothing was counted.
IdleMetrics ==
    /\ groupCompactionRunsStarted = 0
    /\ groupCompactionRunsCompleted = 0
    /\ groupCompactionRunsFailed = 0
    /\ groupCompactions = 0
    /\ garbageCollectedBlocks = 0

notErr == <<bktVars, jobVars, syVars, schedVars, grpVars, ownVars, wkVars, fltVars, testVars,
            metVars>>

notRetire == <<errVars, syVars, schedVars, grpVars, ownVars, wkVars, fltVars, testVars,
               runVars>>

notJob == <<notRetire, garbageCollectedBlocks>>

notCompact == <<errVars, jobVars, grpVars, ownVars, wkVars, fltVars, testVars,
               metVars>>

notGroups == <<errVars, bktVars, jobVars, syVars, schedVars, ownVars, wkVars, fltVars, testVars,
               metVars>>

notOwn == <<errVars, jobVars, syVars, schedVars, grpVars, wkVars, fltVars, testVars,
               metVars>>

notResult == <<errVars, jobVars, syVars, grpVars, ownVars, fltVars, testVars,
               garbageCollectedBlocks>>

notWorker == <<notResult, runVars>>

notFilter == <<errVars, bktVars, jobVars, syVars, schedVars, grpVars, ownVars, testVars,
               metVars>>

notTest == <<errVars, bktVars, jobVars, syVars, schedVars, grpVars, ownVars, wkVars,
             fltVars, metVars>>

----------------------------------------------------------------------------
(***************************************************************************)
(* BucketCompactor.runCompactionJob, one step per blocking operation.     *)
(* concurrency.ForEach(ctx, jobs, len(jobs), f) runs f on every job in    *)
(* its own goroutine, cancels the others' context at the first error and  *)
(* returns that first error once all goroutines have ended; a goroutine   *)
(* that finds the context done before calling f returns ctx.Err().        *)
(***************************************************************************)
\* The order-preserving selection of the elements of s at the indices in S.
RECURSIVE SelectSeq2(_, _, _)
SelectSeq2(s, S, i) ==
    IF i > Len(s) THEN << >>
    ELSE (IF i \in S THEN << s[i] >> ELSE << >>) \o SelectSeq2(s, S, i + 1)

\* What Planner.Plan may return: a subset of the job's metas, order preserved.
Plans(metas) == { SelectSeq2(metas, S, 1) : S \in SUBSET (1..Len(metas)) }

\* The ID the merger gives the output of shard i: a ULID no input block has.
OutID(i) == MaxBlocks + i

\* What Compact / CompactWithSplitting may return without error: one ID, or one
\* per shard, each the zero ULID (0) when that output would hold no samples.
MergeResults(j) ==
    LET n == IF j.useSplitting THEN j.splitNumShards ELSE 1
    IN { [i \in 1..n |-> IF i \in S THEN OutID(i) ELSE 0] : S \in SUBSET (1..n) }

hasNonZeroULIDs(ids) == \E i \in 1..Len(ids) : ids[i] # 0

\* The index health statistics of a downloaded block, as the four checks see them.
HealthStats == [critical : BOOLEAN, ooo : BOOLEAN, i347 : BOOLEAN, p5372 : BOOLEAN]
\* A mutant of DownloadAndVerify: out-of-order chunks are looked at before the
\* critical error.
DownloadAndVerifyOOOFirst(id, dlOK, gatherOK, stats) ==
    IF ~dlOK THEN retry(Wrap(Plain))
    ELSE IF ~gatherOK THEN Wrap(Plain)
    ELSE IF stats.ooo THEN outOfOrderChunkError(Wrap(Plain), id)
    ELSE IF stats.critical THEN halt(Wrap(Plain))
    ELSE IF stats.i347 THEN issue347Error(Wrap(Plain), id)
    ELSE IF stats.p5372 THEN Wrap(Plain)
    ELSE Nil


\* The function ForEach runs for one planned block (lines 414-446): the error it
\* returns. dlOK: block.Download succeeded; gatherOK: GatherIndexHealthStats did.
DownloadAndVerify(id, dlOK, gatherOK, stats) ==
    IF ~dlOK THEN retry(Wrap(Plain))
    ELSE IF ~gatherOK THEN Wrap(Plain)
    ELSE IF stats.critical THEN halt(Wrap(Plain))
    ELSE IF stats.ooo THEN outOfOrderChunkError(Wrap(Plain), id)
    ELSE IF stats.i347 THEN issue347Error(Wrap(Plain), id)
    ELSE IF stats.p5372 THEN Wrap(Plain)
    ELSE Nil

\* The errgroup keeps the first error only.
FirstErr(old, e) == IF old = Nil THEN e ELSE old

Pending == [st |-> "pending", e |-> Nil]

Done(e) == [st |-> IF e = Nil THEN "ok" ELSE "err", e |-> e]

\* One entry of the upload ForEach: st and e as for the download, and at, the
\* step its function ended at: "skip" (zero ID), "ctx" (context done before the
\* function was called), "finalize" (InjectThanos, os.Remove), "verify"
\* (block.VerifyIndex) or "upload" (block.Upload).
UpPending == [st |-> "pending", e |-> Nil, at |-> "none"]

UpDone(e, at) == [st |-> IF e = Nil THEN "ok" ELSE "err", e |-> e, at |-> at]

AllEnded(f) == \A i \in 1..Len(f) : f[i].st # "pending"

\* A mutant of Cleanup: the job directory is removed whatever is returned.
CleanupAlways(e, dir) == { [dir |-> FALSE, rm |-> "ok"] }

\* The deferred function (lines 373-385) with the job directory in state dir:
\* what it leaves of the directory and how os.RemoveAll ended.  A failure of
\* os.RemoveAll is logged and the directory is still there.
Cleanup(e, dir) ==
    IF e # Nil THEN { [dir |-> dir, rm |-> "none"] }
    ELSE { [dir |-> FALSE, rm |-> "ok"] } \cup
         (IF dir THEN { [dir |-> TRUE, rm |-> "err"] } ELSE {})

\* return shouldRerun, compIDs, rerr, and the deferred function.
ReturnWith(sr, ids, e, dir) ==
    /\ shouldRerun' = sr
    /\ retIDs' = ids
    /\ rerr' = e
    /\ jpc' = "done"
    /\ \E c \in Cleanup(e, dir) : subDir' = c.dir /\ rmAll' = c.rm

\* A return after os.MkdirAll has left the directory as it is now.
Return(sr, ids, e) == ReturnWith(sr, ids, e, subDir)

InitJob ==
    /\ IdleErr
    /\ IdleGrouper
    /\ IdleOwn
    /\ IdleWorker
    /\ IdleFilter
    /\ IdleTest
    /\ IdleMetrics
    /\ IdleSyncer
    /\ IdleSched
    /\ bktBlocks = BlockIDs
    /\ bktPartial = {}
    /\ bktDelMarks = {}
    /\ numSamples \in [BlockIDs -> {0, 1}]
    /\ \E split \in {0} \cup (2..MaxShards) :
          job = [key |-> << 0, 1 >>, metas |-> [i \in BlockIDs |-> i],
                 useSplitting |-> split > 0, splitNumShards |-> split]
    /\ jpc = "start"
    /\ subDir \in BOOLEAN      \* a directory an earlier failed run left
    /\ rmAll = "none"
    /\ delTried = {}
    /\ toCompact = << >>
    /\ dl = << >>
    /\ grpErr = Nil
    /\ compIDs = << >>
    /\ up = << >>
    /\ ri = 0
    /\ shouldRerun = FALSE
    /\ retIDs = << >>
    /\ rerr = Nil

\* A mutant of NothingToDo: an empty plan is carried on with.
NothingToDoNever(plan) == FALSE

\* "Nothing to do": the planner returned no block (line 395).
NothingToDo(plan) == Len(plan) = 0

\* os.MkdirAll and Planner.Plan (lines 387-398).
JobPlan ==
    /\ jpc = "start"
    /\ \/ /\ Return(FALSE, << >>, Wrap(Plain))        \* MkdirAll failed
          /\ UNCHANGED <<toCompact, dl>>
       \/ /\ ReturnWith(FALSE, << >>, Wrap(Plain), TRUE)  \* Plan failed
          /\ UNCHANGED <<toCompact, dl>>
       \/ \E plan \in Plans(job.metas) :
             /\ toCompact' = plan
             /\ IF NothingToDo(plan)
                THEN /\ ReturnWith(FALSE, << >>, Nil, TRUE)
                     /\ dl' = dl
                ELSE /\ subDir' = TRUE
                     /\ jpc' = "download"
                     /\ dl' = [i \in 1..Len(plan) |-> Pending]
                     /\ UNCHANGED <<rmAll, shouldRerun, retIDs, rerr>>
    /\ UNCHANGED <<job, grpErr, compIDs, up, ri>>
    /\ UNCHANGED <<bktVars, delTried, notJob>>

\* One planned block is downloaded and verified, or its goroutine finds the
\* context done and returns ctx.Err() (lines 414-446).
JobDownload(i) ==
    /\ jpc = "download"
    /\ dl[i].st = "pending"
    /\ \E e \in {CtxErr} \cup
                { DownloadAndVerify(toCompact[i], d, g, st) :
                    d \in BOOLEAN, g \in BOOLEAN, st \in HealthStats } :
          /\ dl' = [dl EXCEPT ![i] = Done(e)]
          /\ grpErr' = FirstErr(grpErr, e)
    /\ UNCHANGED <<job, jpc, subDir, rmAll, toCompact, compIDs, up, ri,
                   shouldRerun, retIDs, rerr>>
    /\ UNCHANGED <<bktVars, delTried, notJob>>

\* A mutant of Aborts: only a halt error of ForEach ends the job.
AbortsOnHalt(e) == IsHaltError(e)

\* "if err != nil" after the download ForEach (line 448).
Aborts(e) == e # Nil

\* ForEach has returned (lines 448-450).
JobDownloadJoin ==
    /\ jpc = "download"
    /\ AllEnded(dl)
    /\ IF Aborts(grpErr)
       THEN Return(FALSE, << >>, grpErr)
       ELSE /\ jpc' = "merge"
            /\ UNCHANGED <<subDir, rmAll, shouldRerun, retIDs, rerr>>
    /\ grpErr' = Nil
    /\ UNCHANGED <<job, toCompact, dl, compIDs, up, ri>>
    /\ UNCHANGED <<bktVars, delTried, notJob>>

\* c.comp.Compact / CompactWithSplitting (lines 457-480).
JobMerge ==
    /\ jpc = "merge"
    /\ \/ /\ Return(FALSE, << >>, halt(Wrap(Plain)))
          /\ UNCHANGED <<compIDs, up, ri>>
       \/ \E ids \in MergeResults(job) :
             /\ compIDs' = ids
             /\ IF ~hasNonZeroULIDs(ids)
                THEN /\ jpc' = "empty"
                     /\ ri' = 1
                     /\ up' = up
                ELSE /\ jpc' = "upload"
                     /\ up' = [i \in 1..Len(ids) |-> UpPending]
                     /\ ri' = ri
             /\ UNCHANGED <<subDir, rmAll, shouldRerun, retIDs, rerr>>
    /\ UNCHANGED <<job, toCompact, dl, grpErr>>
    /\ UNCHANGED <<bktVars, delTried, notJob>>

\* A mutant of DelCtxDone: the mark is written under the caller's context.
DelCtxDoneWithCaller(done) == done

\* delCtx is derived from context.Background() (lines 220, 733-734, 751-752): the
\* caller's cancellation does not reach it.
DelCtxDone(done) == FALSE

\* deleteBlock (lines 745-758): removes the local directory, then writes the
\* deletion mark under a context detached from the caller's. The outcomes:
\* "ok", "rmErr" (os.RemoveAll failed, nothing is written) and "markErr"
\* (block.MarkForDeletion failed; a failed write leaves no mark); under a
\* context that is done the write may also end "aborted".
DeleteBlockOutcomes(done) ==
    {"ok", "rmErr", "markErr"} \cup (IF DelCtxDone(done) THEN {"aborted"} ELSE {})

deleteBlockErr(o) ==
    IF o = "ok" THEN Nil ELSE IF o = "aborted" THEN Wrap(CtxErr) ELSE Wrap(Plain)

deleteBlockMarks(marks, id, o) == IF o = "ok" THEN marks \cup {id} ELSE marks

\* meta.Stats.NumSamples == 0 (line 472).
IsEmptyBlock(n) == n = 0

\* The loop over the plan when every output ID is zero (lines 468-480): one
\* planned block per step; a failed deleteBlock is only logged.
JobEmptyResult ==
    /\ jpc = "empty"
    /\ IF ri > Len(toCompact)
       THEN /\ Return(TRUE, << >>, Nil)
            /\ UNCHANGED <<ri, bktDelMarks, delTried>>
       ELSE /\ ri' = ri + 1
            /\ IF IsEmptyBlock(numSamples[toCompact[ri]])
               THEN /\ \E o \in DeleteBlockOutcomes(ctxDone) :
                          bktDelMarks' = deleteBlockMarks(bktDelMarks, toCompact[ri], o)
                    /\ delTried' = delTried \cup {toCompact[ri]}
               ELSE UNCHANGED <<bktDelMarks, delTried>>
            /\ UNCHANGED <<jpc, subDir, rmAll, shouldRerun, retIDs, rerr>>
    /\ UNCHANGED <<job, toCompact, dl, grpErr, compIDs, up>>
    /\ UNCHANGED <<bktBlocks, bktPartial, numSamples, notJob>>

\* A mutant of FinalizeErr: a failed index verification is not a halt error.
FinalizeErrNoHalt(injectOK, rmOK, verifyOK) ==
    IF ~injectOK \/ ~rmOK \/ ~verifyOK THEN Wrap(Plain) ELSE Nil

\* The error of the function's steps before the upload, for a non-zero output
\* (lines 503-530): metadata.InjectThanos, os.Remove of the tombstones,
\* block.VerifyIndex.
FinalizeErr(injectOK, rmOK, verifyOK) ==
    IF ~injectOK \/ ~rmOK THEN Wrap(Plain)
    ELSE IF ~verifyOK THEN halt(Wrap(Plain))
    ELSE Nil

\* The step at which these end.
FinalizeAt(injectOK, rmOK, verifyOK) ==
    IF ~injectOK \/ ~rmOK THEN "finalize"
    ELSE IF ~verifyOK THEN "verify"
    ELSE "upload"

\* The function ForEach runs for one output, up to the index verification
\* (lines 489-530). An output that passed is "verified": its upload is next.
JobFinalize(i) ==
    /\ jpc = "upload"
    /\ up[i].st = "pending"
    /\ \/ /\ up' = [up EXCEPT ![i] = UpDone(CtxErr, "ctx")]
          /\ grpErr' = FirstErr(grpErr, CtxErr)
       \/ /\ compIDs[i] = 0                             \* an empty block: skipped
          /\ up' = [up EXCEPT ![i] = UpDone(Nil, "skip")]
          /\ grpErr' = grpErr
       \/ /\ compIDs[i] # 0
          /\ \E injectOK \in BOOLEAN, rmOK \in BOOLEAN, verifyOK \in BOOLEAN :
                LET e == FinalizeErr(injectOK, rmOK, verifyOK)
                    at == FinalizeAt(injectOK, rmOK, verifyOK)
                IN /\ up' = [up EXCEPT ![i] =
                               IF e = Nil
                               THEN [st |-> "verified", e |-> Nil, at |-> at]
                               ELSE UpDone(e, at)]
                   /\ grpErr' = FirstErr(grpErr, e)
    /\ UNCHANGED <<job, jpc, subDir, rmAll, toCompact, dl, compIDs, ri,
                   shouldRerun, retIDs, rerr>>
    /\ UNCHANGED <<bktVars, delTried, notJob>>

\* TRUE when output i is one block.Upload is called for.
UploadDue(i) == up[i].st = "verified"

\* The error of a failed block.Upload (lines 534-536).
UploadFailed(e) == retry(e)

\* block.Upload of a verified output (lines 532-540). A failed upload may leave
\* files of the block in the bucket, without its meta.json.
JobUpload(i) ==
    /\ jpc = "upload"
    /\ UploadDue(i)
    /\ \/ /\ bktBlocks' = bktBlocks \cup {compIDs[i]}
          /\ up' = [up EXCEPT ![i] = [st |-> "uploaded", e |-> Nil, at |-> "upload"]]
          /\ UNCHANGED <<grpErr, bktPartial>>
       \/ /\ up' = [up EXCEPT ![i] = UpDone(UploadFailed(Wrap(Plain)), "upload")]
          /\ grpErr' = FirstErr(grpErr, UploadFailed(Wrap(Plain)))
          /\ \E left \in BOOLEAN :
                bktPartial' = IF left THEN bktPartial \cup {compIDs[i]} ELSE bktPartial
          /\ UNCHANGED bktBlocks
    /\ UNCHANGED <<job, jpc, subDir, rmAll, toCompact, dl, compIDs, ri,
                   shouldRerun, retIDs, rerr>>
    /\ UNCHANGED <<bktDelMarks, numSamples, delTried, notJob>>

\* A mutant of UploadErr: the error of the upload ForEach is dropped.
UploadErrDropped == Nil

\* The error the upload ForEach returned (lines 488, 541-545).
UploadErr == grpErr

\* The upload ForEach has returned (lines 543-548).
JobUploadJoin ==
    /\ jpc = "upload"
    /\ \A i \in 1..Len(up) : up[i].st \notin {"pending", "verified"}
    /\ IF UploadErr # Nil
       THEN /\ Return(FALSE, << >>, UploadErr)
            /\ ri' = ri
       ELSE /\ jpc' = "retire"
            /\ ri' = 1
            /\ UNCHANGED <<subDir, rmAll, shouldRerun, retIDs, rerr>>
    /\ grpErr' = Nil
    /\ UNCHANGED <<job, toCompact, dl, compIDs, up>>
    /\ UNCHANGED <<bktVars, delTried, notJob>>

\* A mutant of Counted: the counter is left alone.
CountedNever(n) == n

\* prometheus.Counter.Inc
Counted(n) == n + 1

\* The loop that marks the compacted inputs for deletion (lines 553-560): one
\* input per step, in the order of the plan; the first failure ends the job.
JobRetire ==
    /\ jpc = "retire"
    /\ IF ri > Len(toCompact)
       THEN /\ Return(TRUE, compIDs, Nil)
            /\ UNCHANGED <<ri, bktDelMarks, delTried, garbageCollectedBlocks>>
       ELSE \E o \in DeleteBlockOutcomes(ctxDone) :
               /\ bktDelMarks' = deleteBlockMarks(bktDelMarks, toCompact[ri], o)
               /\ delTried' = delTried \cup {toCompact[ri]}
               /\ IF deleteBlockErr(o) # Nil
                  THEN /\ Return(FALSE, << >>, retry(Wrap(deleteBlockErr(o))))
                       /\ ri' = ri
                       /\ UNCHANGED garbageCollectedBlocks
                  ELSE /\ ri' = ri + 1
                       /\ garbageCollectedBlocks' = Counted(garbageCollectedBlocks)
                       /\ UNCHANGED <<jpc, subDir, rmAll, shouldRerun, retIDs, rerr>>
    /\ UNCHANGED <<job, toCompact, dl, grpErr, compIDs, up>>
    /\ UNCHANGED <<bktBlocks, bktPartial, numSamples, notRetire>>

NextJob ==
    \/ JobPlan
    \/ \E i \in 1..Len(dl) : JobDownload(i)
    \/ JobDownloadJoin
    \/ JobMerge
    \/ JobEmptyResult
    \/ \E i \in 1..Len(up) : JobFinalize(i)
    \/ \E i \in 1..Len(up) : JobUpload(i)
    \/ JobUploadJoin
    \/ JobRetire

SpecJob == InitJob /\ [][NextJob]_vars

----------------------------------------------------------------------------
(***************************************************************************)
(* Syncer.SyncMetas and Syncer.GarbageCollect, as Compact calls them.     *)
(* GarbageCollect is one step per garbage ID: the context check and the   *)
(* deletion mark written under a detached context.                        *)
(***************************************************************************)
\* The sequences of n distinct elements of S.
RECURSIVE Arrangements(_, _)
Arrangements(S, n) ==
    IF n = 0 THEN { << >> }
    ELSE UNION { { << x >> \o t : t \in Arrangements(S \ {x}, n - 1) } : x \in S }

\* What fetcher.Fetch and its filters may hand over when Fetch succeeds: the
\* metas, the partial blocks, and the duplicates found (at most maxDup of them,
\* in any order).
FetchResults(maxDup) ==
    { [metas |-> m, partial |-> pt, dup |-> d] :
        m \in SUBSET BlockIDs,
        pt \in SUBSET BlockIDs,
        d \in UNION { Arrangements(BlockIDs, n) : n \in 0..maxDup } }

\* The Fetch results SpecGC follows: up to MaxBlocks duplicates.
WideFetch == FetchResults(MaxBlocks)

\* The errors of the collaborators (fetcher, bucket): never of this package's types.
CollaboratorErrs == { Plain, Wrap(Plain) }

\* A mutant of SyncMetasErr: the fetch error is returned as it is.
SyncMetasErrRaw(e) == e

\* The error SyncMetas returns for a failed Fetch (lines 166-169).
SyncMetasErr(e) == retry(e)

\* Syncer.SyncMetas called by Compact (lines 959-961, 162-173). The deletion-mark
\* filter runs inside Fetch and keeps the IDs whose mark it found in the bucket.
SyncMetas(F) ==
    /\ cpc = "sync"
    /\ \/ \E e \in CollaboratorErrs :
             /\ crerr' = Wrap(SyncMetasErr(e))
             /\ cpc' = "ret_sync"
             /\ UNCHANGED <<blocks, partial, dupIDs, delMarkMap>>
       \/ \E f \in F :
             /\ f.partial \cap f.metas = {}
             /\ blocks' = f.metas
             /\ partial' = f.partial
             /\ dupIDs' = f.dup
             /\ delMarkMap' = bktDelMarks
             /\ cpc' = "gc"
             /\ crerr' = crerr
    /\ UNCHANGED <<garbageIDs, gi, gcStart, ctxDone, poolVars>>
    /\ UNCHANGED <<bktVars, notCompact>>

\* A mutant of GarbageIDs: no duplicate is taken for garbage.
GarbageIDsNone(dups, marked) == << >>

\* The loop that builds garbageIDs (lines 206-212).
RECURSIVE GarbageIDs(_, _)
GarbageIDs(dups, marked) ==
    IF dups = << >> THEN << >>
    ELSE (IF Head(dups) \in marked THEN << >> ELSE << Head(dups) >>)
         \o GarbageIDs(Tail(dups), marked)

\* GarbageCollect up to its marking loop (lines 194-212).
GCBegin ==
    /\ cpc = "gc"
    /\ garbageIDs' = GarbageIDs(dupIDs, delMarkMap)
    /\ gi' = 1
    /\ gcStart' = [blocks |-> blocks, marks |-> bktDelMarks]
    /\ cpc' = "gcloop"
    /\ UNCHANGED <<blocks, partial, dupIDs, delMarkMap, ctxDone, crerr, poolVars>>
    /\ UNCHANGED <<bktVars, notCompact>>

\* A mutant of GCSnapshotAfter: the snapshot is not updated.
GCSnapshotKept(snapshot, id) == snapshot

\* delete(s.blocks, id) (line 232).
GCSnapshotAfter(snapshot, id) == snapshot \ {id}

\* The error GarbageCollect returns from its loop: ctx.Err() when the context is
\* done (lines 215-217), the wrapped mark error otherwise (lines 225-228).
GCErr(cancelled, e) == IF cancelled THEN CtxErr ELSE retry(Wrap(e))

\* The errors of block.MarkForDeletion under delCtx (lines 220-223).
MarkErrs(done) == CollaboratorErrs \cup (IF DelCtxDone(done) THEN {CtxErr} ELSE {})

\* One turn of the marking loop (lines 214-234), or its end (lines 235-237);
\* Compact returns GarbageCollect's error wrapped (lines 966-968).
GCStep ==
    /\ cpc = "gcloop"
    /\ IF gi > Len(garbageIDs)
       THEN /\ cpc' = "groups"
            /\ UNCHANGED <<blocks, gi, crerr, bktDelMarks>>
       ELSE IF ctxDone
       THEN /\ crerr' = Wrap(GCErr(TRUE, Nil))
            /\ cpc' = "ret_gc"
            /\ UNCHANGED <<blocks, gi, bktDelMarks>>
       ELSE \/ \E e \in MarkErrs(ctxDone) :             \* MarkForDeletion failed
                /\ crerr' = Wrap(GCErr(FALSE, e))
                /\ cpc' = "ret_gc"
                /\ UNCHANGED <<blocks, gi, bktDelMarks>>
            \/ /\ bktDelMarks' = bktDelMarks \cup {garbageIDs[gi]}
               /\ blocks' = GCSnapshotAfter(blocks, garbageIDs[gi])
               /\ gi' = gi + 1
               /\ UNCHANGED <<cpc, crerr>>
    /\ UNCHANGED <<partial, dupIDs, delMarkMap, garbageIDs, gcStart, ctxDone, poolVars>>
    /\ UNCHANGED <<bktBlocks, bktPartial, numSamples, notCompact>>

\* The caller cancels the context handed to Compact. Of the steps followed here
\* only GarbageCollect's loop reads ctx.Err() (line 215), so a cancellation is
\* followed when that read is next; one that comes at another time is seen at
\* the next such read.
Cancel ==
    /\ cpc = "gcloop"
    /\ gi <= Len(garbageIDs)
    /\ ~ctxDone
    /\ ctxDone' = TRUE
    /\ UNCHANGED <<cpc, crerr, poolVars, syVars, bktVars, notCompact>>

\* SpecGC: the Syncer under every Fetch result over BlockIDs, from any earlier
\* snapshot and any deletion marks in the bucket.
InitGC ==
    /\ IdleErr
    /\ IdleGrouper
    /\ IdleOwn
    /\ IdleWorker
    /\ IdleFilter
    /\ IdleTest
    /\ IdleMetrics
    /\ IdleJob
    /\ bktBlocks = BlockIDs
    /\ bktPartial = {}
    /\ bktDelMarks \in SUBSET BlockIDs
    /\ numSamples = [b \in BlockIDs |-> 1]
    /\ blocks \in SUBSET BlockIDs
    /\ partial = {}
    /\ dupIDs = << >>
    /\ delMarkMap = {}
    /\ garbageIDs = << >>
    /\ gi = 0
    /\ gcStart = [blocks |-> {}, marks |-> {}]
    /\ cpc = "sync"
    /\ ctxDone = FALSE
    /\ crerr = Nil
    /\ skipOOO = FALSE
    /\ timer = "none"
    /\ iter = 1
    /\ jobs = << >>
    /\ notOwned = {}
    /\ ji = 0
    /\ wpc = [w \in Workers |-> "recv"]
    /\ wjob = [w \in Workers |-> NoJob]
    /\ errChan = << >>
    /\ reported = {}
    /\ rerun = FALSE
    /\ jobErrs = << >>
    /\ finishedAllJobs = TRUE
    /\ maxCompactionTimeReached = FALSE
    /\ workDirs = {}
    /\ rmCompactDir = "none"

NextGC ==
    \/ SyncMetas(WideFetch)
    \/ GCBegin
    \/ GCStep
    \/ Cancel

SpecGC == InitGC /\ [][NextGC]_vars

----------------------------------------------------------------------------
(***************************************************************************)
(* BucketCompactor.Compact: the Scheduler and its pool of workers.        *)
(* The job channel is unbuffered: a send is one step of the Scheduler and *)
(* of a worker blocked in "for g := range jobChan".  A worker is at       *)
(*   "recv"    blocked in the range over jobChan                          *)
(*   "check"   about to call ownJob for the job it received               *)
(*   "run"     inside runCompactionJob                                    *)
(*   "sent"    returned after its send on errChan (lines 952-953)         *)
(*   "closed"  returned because jobChan was closed                        *)
(*   "blocked" blocked in the send on a full errChan                      *)
(* The return of runCompactionJob and the worker's handling of its result *)
(* are one step: only the write of finishedAllJobs under the mutex or the *)
(* send on errChan shows to the other goroutines.  The step is taken with *)
(* one of the results JobResults lists; SpecJob follows the call itself.  *)
(***************************************************************************)
\* The external labels and the downsample resolution of the blocks in BlockIDs.
LabelsOf(b) == b % 2

ResolutionOf(b) == 0

\* labels.Labels.Hash, taken to be free of collisions on these label sets.
Hash(lbls) == lbls

\* A mutant of defaultGroupKey: the resolution is left out of the key.
defaultGroupKeyNoRes(rs, lbls) == << 0, Hash(lbls) >>

\* defaultGroupKey: "<resolution>@<hash of the labels>", kept as the pair.
defaultGroupKey(rs, lbls) == << rs, Hash(lbls) >>

\* DefaultGroupKey of the meta of block b.
DefaultGroupKey(b) == defaultGroupKey(ResolutionOf(b), LabelsOf(b))

\* The order of the keys as strings (lines 298-300): "%d@%v" compares like the
\* pair while the numbers have one digit, as they have here.
KeyLess(a, b) == a[1] < b[1] \/ (a[1] = b[1] /\ a[2] < b[2])

\* The key as "group %s" prints it into a message (line 952).
KeyText(k) == 1 + 2 * k[1] + k[2]

\* The IDs in S in ascending order.
RECURSIVE Ascending(_)
Ascending(S) ==
    IF S = {} THEN << >>
    ELSE LET m == CHOOSE x \in S : \A y \in S : x <= y
         IN << m >> \o Ascending(S \ {m})

\* NewJob and AppendMeta for one group key (lines 277-296).
GroupJob(k, metas) ==
    [key |-> k, metas |-> Ascending({ b \in metas : DefaultGroupKey(b) = k }),
     useSplitting |-> FALSE, splitNumShards |-> 0]

\* One job per key, sorted by key (lines 274-302).
RECURSIVE SortedJobs(_, _)
SortedJobs(K, metas) ==
    IF K = {} THEN << >>
    ELSE LET k == CHOOSE x \in K : \A y \in K : x = y \/ KeyLess(x, y)
         IN << GroupJob(k, metas) >> \o SortedJobs(K \ {k}, metas)

\* DefaultGrouper.Groups.
Groups(metas) == SortedJobs({ DefaultGroupKey(b) : b \in metas }, metas)

\* What ownJob may answer: (true, nil), (false, nil) or an error.
OwnAnswers == {"yes", "no", "err"}

\* filterOwnJobs keeps a job iff ownJob answered (true, nil) (lines 1040-1046).
FilterKeeps(answer) == answer = "yes"

\* filterOwnJobs (lines 1037-1049), given ownJob's answer for each job.
filterOwnJobs(js, ans) == SelectSeq2(js, { i \in 1..Len(js) : FilterKeeps(ans[i]) }, 1)

\* The orders c.sortJobs may give the jobs.
SortJobs(js) ==
    { [i \in 1..Len(js) |-> js[pi[i]]] : pi \in Arrangements(1..Len(js), Len(js)) }

\* Where the Scheduler is once job i - 1 is sent: in the select for job i, or
\* past the jobLoop at close(jobChan) and wg.Wait() (lines 1002, 1014-1015).
AfterSend(js, i) == IF i > Len(js) THEN "wait" ELSE "dispatch"

\* Grouper.Groups, filterOwnJobs, sortJobs and the start of the jobLoop
\* (lines 970-1002).
GroupAndFilter ==
    /\ cpc = "groups"
    /\ \/ /\ crerr' = Wrap(Wrap(Plain))            \* AppendMeta failed
          /\ cpc' = "ret_groups"
          /\ UNCHANGED <<jobs, notOwned, ji, workDirs>>
       \/ \E ans \in [1..Len(Groups(blocks)) -> OwnAnswers] :
             IF \E i \in 1..Len(ans) : ans[i] = "err"
             THEN /\ crerr' = Wrap(Plain)          \* ownJob failed
                  /\ cpc' = "ret_own"
                  /\ UNCHANGED <<jobs, notOwned, ji, workDirs>>
             ELSE \E sorted \in SortJobs(filterOwnJobs(Groups(blocks), ans)) :
                  /\ jobs' = sorted
                  /\ notOwned' = { Groups(blocks)[i].key :
                                     i \in { n \in 1..Len(ans) : ans[n] = "no" } }
                  /\ ji' = 1
                  /\ cpc' = AfterSend(sorted, 1)
                  /\ crerr' = crerr
                  /\ workDirs' = {}               \* runutil.DeleteAll (line 992)
    /\ garbageIDs' = << >>                         \* GarbageCollect's locals are gone
    /\ gi' = 0
    /\ gcStart' = [blocks |-> {}, marks |-> {}]
    /\ UNCHANGED <<ctxDone, skipOOO, timer, iter, wpc, wjob, errChan, reported, rerun,
                   jobErrs, finishedAllJobs, maxCompactionTimeReached, rmCompactDir>>
    /\ UNCHANGED <<blocks, partial, dupIDs, delMarkMap, bktVars, notCompact>>

\* Compact has not returned.
Running == cpc \in {"sync", "gc", "gcloop", "groups", "dispatch", "wait"}

\* The timer of time.After(maxCompactionTime) fires (line 874).
TimerFires ==
    /\ timer = "armed"
    /\ Running
    /\ timer' = "fired"
    /\ UNCHANGED <<cpc, ctxDone, crerr, skipOOO, iter, jobs, notOwned, ji, wpc, wjob,
                   errChan, reported, rerun, jobErrs, finishedAllJobs,
                   maxCompactionTimeReached, workDirs, rmCompactDir>>
    /\ UNCHANGED <<syVars, bktVars, notCompact>>

\* A mutant of SendJob: the range over jobs does not advance.
SendJobAgain(w) ==
    /\ cpc = "dispatch"
    /\ wpc[w] = "recv"
    /\ wpc' = [wpc EXCEPT ![w] = "check"]
    /\ wjob' = [wjob EXCEPT ![w] = jobs[ji]]
    /\ UNCHANGED <<cpc, ji>>
    /\ UNCHANGED <<ctxDone, crerr, skipOOO, timer, iter, jobs, notOwned, errChan,
                   reported, rerun, jobErrs, finishedAllJobs, maxCompactionTimeReached, workDirs, rmCompactDir>>
    /\ UNCHANGED <<syVars, bktVars, notCompact>>

\* select case jobChan <- g (line 1007): worker w receives job ji.
SendJob(w) ==
    /\ cpc = "dispatch"
    /\ wpc[w] = "recv"
    /\ wpc' = [wpc EXCEPT ![w] = "check"]
    /\ wjob' = [wjob EXCEPT ![w] = jobs[ji]]
    /\ ji' = ji + 1
    /\ cpc' = AfterSend(jobs, ji + 1)
    /\ UNCHANGED <<ctxDone, crerr, skipOOO, timer, iter, jobs, notOwned, errChan,
                   reported, rerun, jobErrs, finishedAllJobs, maxCompactionTimeReached, workDirs, rmCompactDir>>
    /\ UNCHANGED <<syVars, bktVars, notCompact>>

\* select case jobErr := <-errChan (lines 1004-1006), then close(jobChan).
RecvErr ==
    /\ cpc = "dispatch"
    /\ Len(errChan) > 0
    /\ jobErrs' = MultiAdd(jobErrs, Head(errChan))
    /\ errChan' = Tail(errChan)
    /\ cpc' = "wait"
    /\ UNCHANGED <<ctxDone, crerr, skipOOO, timer, iter, jobs, notOwned, ji, wpc, wjob,
                   reported, rerun, finishedAllJobs, maxCompactionTimeReached, workDirs, rmCompactDir>>
    /\ UNCHANGED <<syVars, bktVars, notCompact>>

\* select case <-maxCompactionTimeChan (lines 1008-1011), then close(jobChan).
Deadline ==
    /\ cpc = "dispatch"
    /\ timer = "fired"
    /\ timer' = "taken"
    /\ maxCompactionTimeReached' = TRUE
    /\ cpc' = "wait"
    /\ UNCHANGED <<ctxDone, crerr, skipOOO, iter, jobs, notOwned, ji, wpc, wjob,
                   errChan, reported, rerun, jobErrs, finishedAllJobs, workDirs,
                   rmCompactDir>>
    /\ UNCHANGED <<syVars, bktVars, notCompact>>

\* A mutant of OwnedToRun: the worker runs the job whatever ownJob answered.
OwnedToRunAlways(answer) == TRUE

\* The worker goes on to runCompactionJob iff ownJob answered (true, nil)
\* (lines 899-905).
OwnedToRun(answer) == answer = "yes"

\* The worker's ownership check for the job it received (lines 895-907): it goes
\* on to runCompactionJob, or skips the job ("continue").
WorkerCheck(w) ==
    /\ wpc[w] = "check"
    /\ \E answer \in OwnAnswers :
          /\ notOwned' = IF answer = "no" THEN notOwned \cup {wjob[w].key} ELSE notOwned
          /\ IF OwnedToRun(answer)
             THEN /\ wpc' = [wpc EXCEPT ![w] = "run"]
                  /\ wjob' = wjob
             ELSE /\ wpc' = [wpc EXCEPT ![w] = "recv"]
                  /\ wjob' = [wjob EXCEPT ![w] = NoJob]
    /\ UNCHANGED <<cpc, ctxDone, crerr, skipOOO, timer, iter, jobs, ji, errChan,
                   reported, rerun, jobErrs, finishedAllJobs, maxCompactionTimeReached, workDirs, rmCompactDir>>
    /\ UNCHANGED <<syVars, bktVars, notCompact>>

\* The errors runCompactionJob may return for job j.
JobErrors(j) ==
    { Wrap(Plain), CtxErr, retry(Wrap(Plain)), halt(Wrap(Plain)),
      retry(Wrap(Wrap(Plain))) }
    \cup { outOfOrderChunkError(Wrap(Plain), j.metas[i]) : i \in 1..Len(j.metas) }
    \cup { issue347Error(Wrap(Plain), j.metas[i]) : i \in 1..Len(j.metas) }

\* One error of each kind the worker and the classification tell apart: not
\* classified, Retry, Halt, out-of-order chunks, issue 347.
JobErrorKinds(j) ==
    { Wrap(Plain), retry(Wrap(Plain)), halt(Wrap(Plain)),
      outOfOrderChunkError(Wrap(Plain), j.metas[1]),
      issue347Error(Wrap(Plain), j.metas[1]) }

\* What runCompactionJob may return for job j with the errors in E: [sr, ids, e]
\* for shouldRerun, compIDs and the error.
JobResults(j, E) ==
    { [sr |-> FALSE, ids |-> << >>, e |-> Nil],         \* nothing planned
      [sr |-> TRUE, ids |-> << >>, e |-> Nil] }         \* no sample in the inputs
    \cup { [sr |-> TRUE, ids |-> ids, e |-> Nil] :
             ids \in { r \in MergeResults(j) : hasNonZeroULIDs(r) } }
    \cup { [sr |-> FALSE, ids |-> << >>, e |-> e] : e \in E }

\* A mutant of FinishedAfter: shouldRerunJob is ignored.
FinishedAfterKept(fin, r) == fin

\* finishedAllJobs after a job that returned no error (lines 916-920).
FinishedAfter(fin, r) == IF r.sr THEN FALSE ELSE fin

\* The worker goes back to the range over jobChan ("continue").
Continue(w, fin, asked) ==
    /\ finishedAllJobs' = fin
    /\ rerun' = (rerun \/ asked)
    /\ wpc' = [wpc EXCEPT ![w] = "recv"]
    /\ UNCHANGED <<errChan, reported>>

\* A mutant of SendErr: after its send the worker goes back to the range over
\* jobChan.
SendErrAndContinue(w, e) ==
    /\ UNCHANGED <<finishedAllJobs, rerun>>
    /\ IF Len(errChan) < Concurrency
       THEN /\ errChan' = Append(errChan, e)
            /\ reported' = reported \cup {e}
            /\ wpc' = [wpc EXCEPT ![w] = "recv"]
       ELSE /\ wpc' = [wpc EXCEPT ![w] = "blocked"]
            /\ UNCHANGED <<errChan, reported>>

\* The send on errChan and the return (lines 952-953); the send blocks while the
\* buffer is full.
SendErr(w, e) ==
    /\ UNCHANGED <<finishedAllJobs, rerun>>
    /\ IF Len(errChan) < Concurrency
       THEN /\ errChan' = Append(errChan, e)
            /\ reported' = reported \cup {e}
            /\ wpc' = [wpc EXCEPT ![w] = "sent"]
       ELSE /\ wpc' = [wpc EXCEPT ![w] = "blocked"]
            /\ UNCHANGED <<errChan, reported>>

\* runCompactionJob's deferred function leaves the job directory alone when
\* the job returns e (lines 378-380).
LeftBy(e) == \A c \in Cleanup(e, TRUE) : c.rm = "none"

\* runCompactionJob returns to worker w, which handles the result (lines
\* 909-953); RepairIssue347 and block.MarkForNoCompact succeed or fail.
WorkerFinish(w) ==
    /\ wpc[w] = "run"
    /\ \E r \in JobResults(wjob[w], JobErrorKinds(wjob[w])) :
          /\ workDirs' = IF LeftBy(r.e) THEN workDirs \cup {wjob[w].key}
                         ELSE workDirs \ {wjob[w].key}
          /\ IF r.e = Nil
             THEN Continue(w, FinishedAfter(finishedAllJobs, r), r.sr)
             ELSE \E repaired \in BOOLEAN, noCompactMarked \in BOOLEAN :
                  IF IsIssue347Error(r.e) /\ repaired
                  THEN Continue(w, FALSE, TRUE)
                  ELSE IF IsOutOfOrderChunkError(r.e) /\ skipOOO /\ noCompactMarked
                  THEN Continue(w, FALSE, TRUE)
                  ELSE SendErr(w, Wrapf(r.e, KeyText(wjob[w].key)))
    /\ wjob' = [wjob EXCEPT ![w] = NoJob]
    /\ UNCHANGED <<cpc, ctxDone, crerr, skipOOO, timer, iter, jobs, notOwned, ji,
                   jobErrs, maxCompactionTimeReached, rmCompactDir>>
    /\ UNCHANGED <<syVars, bktVars, notCompact>>

\* "for g := range jobChan" ends once the channel is closed (lines 895, 1014).
WorkerExit(w) ==
    /\ cpc = "wait"
    /\ wpc[w] = "recv"
    /\ wpc' = [wpc EXCEPT ![w] = "closed"]
    /\ UNCHANGED <<cpc, ctxDone, crerr, skipOOO, timer, iter, jobs, notOwned, ji, wjob,
                   errChan, reported, rerun, jobErrs, finishedAllJobs,
                   maxCompactionTimeReached, workDirs, rmCompactDir>>
    /\ UNCHANGED <<syVars, bktVars, notCompact>>

\* A mutant of Drain: what is left in errChan is dropped.
DrainNothing(es, ch) == es

\* Every error left in errChan is added to es (lines 1019-1022).
RECURSIVE Drain(_, _)
Drain(es, ch) == IF ch = << >> THEN es ELSE Drain(MultiAdd(es, Head(ch)), Tail(ch))

\* A mutant of LoopEnds: only finishedAllJobs ends the outer loop.
LoopEndsOnFinishedOnly(reached, fin) == fin

\* The test that ends the outer loop (line 1029).
LoopEnds(reached, fin) == reached \/ fin

\* wg.Wait() has returned (line 1015).
Joined == \A w \in Workers : wpc[w] \in {"sent", "closed"}

\* After wg.Wait(): drain errChan, then return the errors, return nil, or start
\* the next iteration with a new pool and new channels (lines 1019-1034, 878-956).
Join ==
    /\ cpc = "wait"
    /\ Joined
    /\ IF Len(Drain(jobErrs, errChan)) > 0
       THEN /\ jobErrs' = Drain(jobErrs, errChan)
            /\ errChan' = << >>
            /\ crerr' = MultiErr(Drain(jobErrs, errChan))
            /\ cpc' = "ret_errs"
            /\ UNCHANGED <<iter, jobs, notOwned, ji, wpc, reported, rerun,
                           finishedAllJobs, maxCompactionTimeReached, workDirs, rmCompactDir>>
       ELSE IF LoopEnds(maxCompactionTimeReached, finishedAllJobs)
       THEN /\ crerr' = Nil
            /\ cpc' = "ret_nil"
            /\ workDirs' = {}                      \* the deferred function
            /\ rmCompactDir' \in {"ok", "err"}     \* (lines 860-870)
            /\ UNCHANGED <<iter, jobs, notOwned, ji, wpc, errChan, reported, rerun,
                           jobErrs, finishedAllJobs, maxCompactionTimeReached>>
       ELSE /\ iter < MaxIter
            /\ iter' = iter + 1
            /\ cpc' = "sync"
            /\ crerr' = crerr
            /\ wpc' = [w \in Workers |-> "recv"]
            /\ errChan' = << >>
            /\ reported' = {}
            /\ rerun' = FALSE
            /\ jobErrs' = << >>
            /\ finishedAllJobs' = TRUE
            /\ maxCompactionTimeReached' = FALSE
            /\ jobs' = << >>
            /\ notOwned' = {}
            /\ ji' = 0
            /\ workDirs' = {}
            /\ rmCompactDir' = rmCompactDir
    /\ UNCHANGED <<ctxDone, skipOOO, timer, wjob>>
    /\ UNCHANGED <<syVars, bktVars, notCompact>>


\* The fetches Spec follows: at most one duplicate, no partial block.
NarrowFetch == { f \in FetchResults(1) : f.partial = {} }

\* Compact is called: the first pool is started, the timer armed when
\* maxCompactionTime is positive (lines 872-956). The Syncer holds the snapshot
\* and the partial blocks an earlier call left.
Init ==
    /\ IdleErr
    /\ IdleGrouper
    /\ IdleOwn
    /\ IdleWorker
    /\ IdleFilter
    /\ IdleTest
    /\ IdleMetrics
    /\ IdleJob
    /\ blocks \in SUBSET BlockIDs
    /\ partial \in SUBSET (BlockIDs \ blocks)
    /\ dupIDs = << >>
    /\ delMarkMap = {}
    /\ garbageIDs = << >>
    /\ gi = 0
    /\ gcStart = [blocks |-> {}, marks |-> {}]
    /\ bktBlocks = BlockIDs
    /\ bktPartial = {}
    /\ bktDelMarks = {}
    /\ numSamples = [b \in BlockIDs |-> 1]
    /\ cpc = "sync"
    /\ ctxDone = FALSE
    /\ crerr = Nil
    /\ skipOOO \in BOOLEAN
    /\ timer \in {"none", "armed"}
    /\ iter = 1
    /\ jobs = << >>
    /\ notOwned = {}
    /\ ji = 0
    /\ wpc = [w \in Workers |-> "recv"]
    /\ wjob = [w \in Workers |-> NoJob]
    /\ errChan = << >>
    /\ reported = {}
    /\ rerun = FALSE
    /\ jobErrs = << >>
    /\ finishedAllJobs = TRUE
    /\ maxCompactionTimeReached = FALSE
    /\ workDirs = {}
    /\ rmCompactDir = "none"

Next ==
    \/ SyncMetas(NarrowFetch)
    \/ GCBegin
    \/ GCStep
    \/ Cancel
    \/ GroupAndFilter
    \/ TimerFires
    \/ \E w \in Workers : SendJob(w)
    \/ RecvErr
    \/ Deadline
    \/ \E w \in Workers : WorkerCheck(w)
    \/ \E w \in Workers : WorkerFinish(w)
    \/ \E w \in Workers : WorkerExit(w)
    \/ Join

Spec == Init /\ [][Next]_vars

\* A call of runCompactionJob on its own, or a call of Compact.
InitBoth == InitJob \/ Init

NextBoth == NextJob \/ Next

SpecBoth == InitBoth /\ [][NextBoth]_vars

----------------------------------------------------------------------------
(***************************************************************************)
(* Several compactor instances on one bucket.  Each instance runs one     *)
(* iteration of Compact for one job: Groups and filterOwnJobs, the        *)
(* worker's ownership check, runCompactionJob up to the upload, and the   *)
(* deletion marks on the inputs.  The oracle behind ownJob names one      *)
(* owner at a time, and the ownership may move between any two steps.     *)
(***************************************************************************)

\* What ownJob may answer instance i: (true, nil) iff the oracle names i as the
\* owner, (false, nil) otherwise, or an error.
ownJob(i) == { IF oracle.owner = i THEN "yes" ELSE "no", "err" }

\* The blocks an instance's fetcher hands to Groups: the source blocks in the
\* bucket that bear no deletion mark.
Fetched == (bktBlocks \cap BlockIDs) \ bktDelMarks

\* The ULID instance i's merger gives its output: no other block has it.
InstOutID(i) == MaxBlocks + i

InitOwn ==
    /\ IdleErr
    /\ IdleJob
    /\ IdleSyncer
    /\ IdleSched
    /\ IdleGrouper
    /\ bktBlocks = BlockIDs
    /\ bktPartial = {}
    /\ bktDelMarks = {}
    /\ numSamples = [b \in BlockIDs |-> 1]
    /\ oracle = [owner |-> 1, epoch |-> 0]
    /\ inst = [i \in Instances |-> NoRun]
    /\ IdleWorker
    /\ IdleFilter
    /\ IdleTest
    /\ IdleMetrics

\* The ownership of the job keys moves to another instance.
Rebalance ==
    /\ oracle.epoch < MaxEpoch
    /\ \E o \in Instances \ {oracle.owner} :
          oracle' = [owner |-> o, epoch |-> oracle.epoch + 1]
    /\ UNCHANGED <<inst, bktVars, notOwn>>

\* Groups and filterOwnJobs of instance i (lines 970-981): a job that is kept is
\* queued for the workers with the metas fetched now.
InstGroups(i) ==
    /\ inst[i].pc = "idle"
    /\ \E n \in 1..Len(Groups(Fetched)), answer \in ownJob(i) :
          LET j == Groups(Fetched)[n]
          IN inst' = [inst EXCEPT ![i] =
                        IF FilterKeeps(answer)
                        THEN [NoRun EXCEPT !.pc = "queued", !.key = j.key,
                                           !.metas = j.metas]
                        ELSE [NoRun EXCEPT !.pc = "dropped", !.key = j.key]]
    /\ UNCHANGED <<oracle, bktVars, notOwn>>

\* The worker's ownership check of instance i (lines 895-907).
InstCheck(i) ==
    /\ inst[i].pc = "queued"
    /\ \E answer \in ownJob(i) :
          inst' = [inst EXCEPT ![i].pc = IF OwnedToRun(answer) THEN "run"
                                         ELSE "skipped",
                               ![i].at = oracle.epoch]
    /\ UNCHANGED <<oracle, bktVars, notOwn>>

\* runCompactionJob of instance i up to the upload (lines 396-545): the plan
\* over the job's metas, the merge, and the upload of the output, which may fail.
InstMerge(i) ==
    /\ inst[i].pc = "run"
    /\ \E plan \in Plans(inst[i].metas) :
          IF NothingToDo(plan)
          THEN /\ inst' = [inst EXCEPT ![i].pc = "done"]
               /\ UNCHANGED bktBlocks
          ELSE \/ /\ inst' = [inst EXCEPT ![i].pc = "uploaded",
                                          ![i].plan = plan,
                                          ![i].out = InstOutID(i)]
                  /\ bktBlocks' = bktBlocks \cup {InstOutID(i)}
               \/ /\ inst' = [inst EXCEPT ![i].pc = "failed", ![i].plan = plan]
                  /\ UNCHANGED bktBlocks
    /\ UNCHANGED <<oracle, bktPartial, bktDelMarks, numSamples, notOwn>>

\* The deletion marks instance i puts on the blocks of its plan once the
\* output is uploaded (lines 550-560): the first n blocks of the plan get
\* their mark, and the job fails on the next one unless n is all of them.
InstRetire(i) ==
    /\ inst[i].pc = "uploaded"
    /\ \E n \in 0..Len(inst[i].plan) :
          /\ bktDelMarks' = bktDelMarks \cup { inst[i].plan[k] : k \in 1..n }
          /\ inst' = [inst EXCEPT ![i].pc = IF n = Len(inst[i].plan) THEN "done"
                                            ELSE "failed"]
    /\ UNCHANGED <<oracle, bktBlocks, bktPartial, numSamples, notOwn>>

NextOwn ==
    \/ Rebalance
    \/ \E i \in Instances : InstGroups(i)
    \/ \E i \in Instances : InstCheck(i)
    \/ \E i \in Instances : InstMerge(i)
    \/ \E i \in Instances : InstRetire(i)

SpecOwn == InitOwn /\ [][NextOwn]_vars

----------------------------------------------------------------------------
(***************************************************************************)
(* One worker with the result of runCompactionJob (lines 909-953), and    *)
(* RepairIssue347 (lines 687-743), one step per operation that may fail.  *)
(* The worker is at                                                       *)
(*   "run"     inside runCompactionJob                                    *)
(*   "ret"     holding the result                                         *)
(*   "repair"  inside RepairIssue347                                      *)
(*   "ooo"     at the test for out-of-order chunks (line 935)             *)
(*   "next"    back at the range over jobChan ("continue")                *)
(*   "sent"    returned after its send on errChan                         *)
(*   "panic"   in the panic of a failed type assertion (line 940)         *)
(* RepairIssue347 is at the operation it runs next, or at "ret_" and the  *)
(* operation whose failure it returned, or at "ret_nil".  Its deferred    *)
(* os.RemoveAll(tmpdir) only logs.                                        *)
(***************************************************************************)

\* The worker whose handling is followed.
Handler == 1

\* ie.id of errors.Cause(issue347Err).(Issue347Error) (line 688).
IssueID(e) == Head(Cause(e)).id

\* err.(OutOfOrderChunksError).id (line 940): the assertion is on err itself.
OutOfOrderID(e) == Head(e).id

\* The ULID block.Repair gives the repaired copy of block id: a new one.
ResID(id) == MaxBlocks + id

\* The context a call runs under is done.  An operation on the bucket ends
\* "ok" or "err"; under a context that is done it may also end "aborted".
Outcomes(done) == {"ok", "err"} \cup (IF done THEN {"aborted"} ELSE {})

\* What a failed operation returned.
OpErr(o) == IF o = "aborted" THEN CtxErr ELSE Plain

\* A mutant of IsRepairable: the argument's type is not looked at.
IsRepairableAny(e) == TRUE

\* RepairIssue347 goes on with its argument (lines 688-691).
IsRepairable(e) == HasType(Cause(e), "i347")

\* A mutant of RepairTried: the repair is run for every failed job.
RepairTriedAlways(e) == TRUE

\* The worker calls RepairIssue347 (line 927).
RepairTried(e) == IsIssue347Error(e)

\* A mutant of NoCompactTried: the option is not looked at.
NoCompactTriedAnyway(e, skip) == IsOutOfOrderChunkError(e)

\* The worker calls block.MarkForNoCompact (line 935).
NoCompactTried(e, skip) == IsOutOfOrderChunkError(e) /\ skip

\* A mutant of Reported: the error of the repair is sent.
ReportedRepairErr(e, re, key) == Wrapf(re, KeyText(key))

\* What the worker sends on errChan for the job error e (line 952).
Reported(e, re, key) == Wrapf(e, KeyText(key))

\* The errors RepairIssue347 is called with when it is called directly.
RepairArgs ==
    { Plain, Wrap(Plain), halt(Wrap(Plain)) }
    \cup { outOfOrderChunkError(Wrap(Plain), b) : b \in BlockIDs }
    \cup { issue347Error(Wrap(Plain), b) : b \in BlockIDs }
    \cup { Wrap(issue347Error(Wrap(Plain), b)) : b \in BlockIDs }

\* A worker that has just called runCompactionJob for the last job of the
\* iteration, the Scheduler being past close(jobChan) in wg.Wait() (line 1015);
\* or a direct call of RepairIssue347.
InitWorker ==
    /\ IdleErr
    /\ IdleJob
    /\ IdleSyncer
    /\ IdleGrouper
    /\ IdleOwn
    /\ IdleFilter
    /\ IdleTest
    /\ garbageCollectedBlocks = 0
    /\ bktBlocks = BlockIDs
    /\ bktPartial = {}
    /\ bktDelMarks = {}
    /\ numSamples = [b \in BlockIDs |-> 1]
    /\ bktNoCompact = {}
    /\ ctxDone = FALSE
    /\ crerr = Nil
    /\ skipOOO \in BOOLEAN
    /\ timer = "none"
    /\ iter = 1
    /\ jobs = Groups(BlockIDs)
    /\ notOwned = {}
    /\ ji = Len(jobs) + 1
    /\ errChan = << >>
    /\ reported = {}
    /\ rerun = FALSE
    /\ jobErrs = << >>
    /\ finishedAllJobs = TRUE
    /\ maxCompactionTimeReached = FALSE
    /\ workDirs = {}
    /\ rmCompactDir = "none"
    /\ hres = NoResult
    /\ resid = 0
    /\ rperr = Nil
    /\ \/ /\ hpc = "run"
          /\ cpc = "wait"
          /\ \E done \in 0..MaxRuns, failed \in 0..MaxRuns, new \in 0..MaxRuns :
                /\ failed <= done
                /\ new <= done - failed
                /\ groupCompactionRunsStarted = done + 1        \* line 907
                /\ groupCompactionRunsCompleted = done - failed
                /\ groupCompactionRunsFailed = failed
                /\ groupCompactions = new
          /\ \E n \in 1..Len(jobs) :
                wjob = [w \in Workers |-> IF w = Handler THEN jobs[n] ELSE NoJob]
          /\ wpc = [w \in Workers |-> IF w = Handler THEN "run" ELSE "recv"]
          /\ rpc = "idle"
          /\ issue347Err = Nil
       \/ /\ hpc = "idle"
          /\ cpc = "idle"
          /\ groupCompactionRunsStarted = 0
          /\ groupCompactionRunsCompleted = 0
          /\ groupCompactionRunsFailed = 0
          /\ groupCompactions = 0
          /\ wjob = [w \in Workers |-> NoJob]
          /\ wpc = [w \in Workers |-> "recv"]
          /\ rpc = "start"
          /\ issue347Err \in RepairArgs

\* What the steps of the worker and of RepairIssue347 leave alone.
workerFrame == <<cpc, crerr, skipOOO, timer, iter, jobs, notOwned, ji, wjob, rerun,
                 jobErrs, maxCompactionTimeReached, workDirs, rmCompactDir>>

\* The caller's context is cancelled while the worker handles the result; the
\* workers' context is derived from it (line 881).
CancelWorker ==
    /\ hpc \in {"run", "ret", "repair", "ooo"} \/ rpc \notin {"idle"}
    /\ ~ctxDone
    /\ ctxDone' = TRUE
    /\ UNCHANGED <<wpc, errChan, reported, finishedAllJobs, workerFrame>>
    /\ UNCHANGED <<bktVars, wkVars, notWorker>>

\* runCompactionJob returns to the worker (line 909).
JobReturns ==
    /\ hpc = "run"
    /\ \E r \in JobResults(wjob[Handler], JobErrors(wjob[Handler])) : hres' = r
    /\ hpc' = "ret"
    /\ UNCHANGED <<bktNoCompact, rpc, issue347Err, resid, rperr>>
    /\ UNCHANGED <<ctxDone, wpc, errChan, reported, finishedAllJobs, workerFrame>>
    /\ UNCHANGED <<bktVars, notWorker>>

\* The worker's "continue" with finishedAllJobs set to fin.
HandlerContinues(fin) ==
    /\ finishedAllJobs' = fin
    /\ hpc' = "next"
    /\ wpc' = [wpc EXCEPT ![Handler] = "recv"]
    /\ UNCHANGED <<errChan, reported>>

\* The worker's send on errChan and its return (lines 952-953).
HandlerSends(e) ==
    /\ errChan' = Append(errChan, e)
    /\ reported' = reported \cup {e}
    /\ hpc' = "sent"
    /\ wpc' = [wpc EXCEPT ![Handler] = "sent"]
    /\ UNCHANGED finishedAllJobs

\* A mutant of CompactionCounted: every run without error is counted.
CompactionCountedAlways(ids) == TRUE

\* if hasNonZeroULIDs(compactedBlockIDs) (line 912)
CompactionCounted(ids) == hasNonZeroULIDs(ids)

\* The worker counts the run as completed or failed (lines 910-925) and looks
\* at the result (lines 910-927): no error, an error it calls
\* RepairIssue347 for, or another error.
HandleResult ==
    /\ hpc = "ret"
    /\ UNCHANGED groupCompactionRunsStarted
    /\ IF hres.e = Nil
       THEN /\ groupCompactionRunsCompleted' = groupCompactionRunsCompleted + 1
            /\ groupCompactions' = IF CompactionCounted(hres.ids)
                                   THEN groupCompactions + 1 ELSE groupCompactions
            /\ UNCHANGED groupCompactionRunsFailed
       ELSE /\ groupCompactionRunsFailed' = groupCompactionRunsFailed + 1
            /\ UNCHANGED <<groupCompactionRunsCompleted, groupCompactions>>
    /\ IF hres.e = Nil
       THEN /\ HandlerContinues(FinishedAfter(finishedAllJobs, hres))
            /\ UNCHANGED <<rpc, issue347Err>>
       ELSE IF RepairTried(hres.e)
       THEN /\ hpc' = "repair"
            /\ rpc' = "start"
            /\ issue347Err' = hres.e
            /\ UNCHANGED <<wpc, errChan, reported, finishedAllJobs>>
       ELSE /\ hpc' = "ooo"
            /\ UNCHANGED <<rpc, issue347Err, wpc, errChan, reported, finishedAllJobs>>
    /\ UNCHANGED <<bktNoCompact, hres, resid, rperr>>
    /\ UNCHANGED <<ctxDone, workerFrame>>
    /\ UNCHANGED <<bktVars, notResult>>

\* RepairIssue347 returns e from the operation at.
RepairReturns(at, e) ==
    /\ rperr' = e
    /\ rpc' = IF e = Nil THEN "ret_nil" ELSE at

\* The steps of RepairIssue347 before anything is written to the bucket: the
\* type assertion and ioutil.TempDir (lines 688-696), block.Download (lines
\* 705-708), metadata.ReadFromDir (710-713), block.Repair (715-718),
\* block.VerifyIndex (720-723).
RepairLocal ==
    /\ \/ /\ rpc = "start"
          /\ IF ~IsRepairable(issue347Err)
             THEN RepairReturns("ret_arg", Plain)
             ELSE \E ok \in BOOLEAN :
                     IF ok THEN rpc' = "download" /\ rperr' = rperr
                     ELSE RepairReturns("ret_tmpdir", Plain)
          /\ resid' = resid
       \/ /\ rpc = "download"
          /\ \E o \in Outcomes(ctxDone) :
                IF o = "ok" THEN rpc' = "meta" /\ rperr' = rperr
                ELSE RepairReturns("ret_download",
                                   retry(Wrapf(OpErr(o), IssueID(issue347Err))))
          /\ resid' = resid
       \/ /\ rpc = "meta"
          /\ \E ok \in BOOLEAN :
                IF ok THEN rpc' = "repair" /\ rperr' = rperr
                ELSE RepairReturns("ret_meta", Wrap(Plain))
          /\ resid' = resid
       \/ /\ rpc = "repair"
          /\ \E ok \in BOOLEAN :
                IF ok THEN /\ rpc' = "verify"
                           /\ resid' = ResID(IssueID(issue347Err))
                           /\ rperr' = rperr
                ELSE /\ RepairReturns("ret_repair",
                                      Wrapf(Plain, IssueID(issue347Err)))
                     /\ resid' = resid
       \/ /\ rpc = "verify"
          /\ \E ok \in BOOLEAN :
                IF ok THEN rpc' = "upload" /\ rperr' = rperr
                ELSE RepairReturns("ret_verify", Wrapf(Plain, resid))
          /\ resid' = resid
    /\ UNCHANGED <<bktNoCompact, hpc, hres, issue347Err>>
    /\ UNCHANGED <<ctxDone, wpc, errChan, reported, finishedAllJobs, workerFrame>>
    /\ UNCHANGED <<bktVars, notWorker>>

\* block.Upload of the repaired block (lines 725-728).  A failed upload may
\* leave files of the block in the bucket, without its meta.json.
RepairUpload ==
    /\ rpc = "upload"
    /\ \E o \in Outcomes(ctxDone) :
          IF o = "ok"
          THEN /\ bktBlocks' = bktBlocks \cup {resid}
               /\ rpc' = "mark"
               /\ UNCHANGED <<rperr, bktPartial>>
          ELSE /\ RepairReturns("ret_upload", retry(Wrapf(OpErr(o), resid)))
               /\ \E left \in BOOLEAN :
                     bktPartial' = IF left THEN bktPartial \cup {resid}
                                   ELSE bktPartial
               /\ UNCHANGED bktBlocks
    /\ UNCHANGED <<bktDelMarks, numSamples>>
    /\ UNCHANGED <<bktNoCompact, hpc, hres, issue347Err, resid>>
    /\ UNCHANGED <<ctxDone, wpc, errChan, reported, finishedAllJobs, workerFrame>>
    /\ UNCHANGED notWorker

\* block.MarkForDeletion of the broken block under delCtx (lines 732-741).
RepairMark ==
    /\ rpc = "mark"
    /\ \E o \in Outcomes(DelCtxDone(ctxDone)) :
          IF o = "ok"
          THEN /\ bktDelMarks' = bktDelMarks \cup {IssueID(issue347Err)}
               /\ RepairReturns("ret_mark", Nil)
          ELSE /\ RepairReturns("ret_mark",
                                Wrapf(OpErr(o), IssueID(issue347Err)))
               /\ UNCHANGED bktDelMarks
    /\ UNCHANGED <<bktBlocks, bktPartial, numSamples>>
    /\ UNCHANGED <<bktNoCompact, hpc, hres, issue347Err, resid>>
    /\ UNCHANGED <<ctxDone, wpc, errChan, reported, finishedAllJobs, workerFrame>>
    /\ UNCHANGED notWorker

\* RepairIssue347 has returned.
RepairEnded == rpc \notin {"idle", "start", "download", "meta", "repair", "verify",
                           "upload", "mark"}

\* RepairIssue347 has returned to the worker (lines 927-933).
AfterRepair ==
    /\ hpc = "repair"
    /\ RepairEnded
    /\ IF rperr = Nil
       THEN HandlerContinues(FALSE)
       ELSE /\ hpc' = "ooo"
            /\ UNCHANGED <<wpc, errChan, reported, finishedAllJobs>>
    /\ UNCHANGED <<bktNoCompact, hres, rpc, issue347Err, resid, rperr>>
    /\ UNCHANGED <<ctxDone, workerFrame>>
    /\ UNCHANGED <<bktVars, notWorker>>

\* The handling of out-of-order chunks and the report of the job's error
\* (lines 935-953); block.MarkForNoCompact runs under Compact's ctx.
HandleOOO ==
    /\ hpc = "ooo"
    /\ IF NoCompactTried(hres.e, skipOOO)
       THEN IF ~HasType(hres.e, "ooo")
            THEN /\ hpc' = "panic"
                 /\ UNCHANGED <<wpc, errChan, reported, finishedAllJobs, bktNoCompact>>
            ELSE \E o \in Outcomes(ctxDone) :
                    IF o = "ok"
                    THEN /\ bktNoCompact' = bktNoCompact \cup {OutOfOrderID(hres.e)}
                         /\ HandlerContinues(FALSE)
                    ELSE /\ HandlerSends(Reported(hres.e, rperr, wjob[Handler].key))
                         /\ UNCHANGED bktNoCompact
       ELSE /\ HandlerSends(Reported(hres.e, rperr, wjob[Handler].key))
            /\ UNCHANGED bktNoCompact
    /\ UNCHANGED <<hres, rpc, issue347Err, resid, rperr>>
    /\ UNCHANGED <<ctxDone, workerFrame>>
    /\ UNCHANGED <<bktVars, notWorker>>

NextWorker ==
    \/ CancelWorker
    \/ JobReturns
    \/ HandleResult
    \/ RepairLocal
    \/ RepairUpload
    \/ RepairMark
    \/ AfterRepair
    \/ HandleOOO
    \/ \E w \in Workers : WorkerExit(w)
    \/ Join

SpecWorker == InitWorker /\ [][NextWorker]_vars

----------------------------------------------------------------------------
(***************************************************************************)
(* NoCompactionMarkFilter.Filter (lines 1073-1118).  concurrency.ForEach  *)
(* pushes the IDs on a channel and starts min(concurrency, len(ids))      *)
(* goroutines; each takes the next ID, returns the context's error if the *)
(* group's context is done, and runs the probe otherwise; the first error *)
(* a goroutine returns cancels the group's context and is what ForEach    *)
(* returns.  A goroutine is "idle" between two IDs, "probing" inside the  *)
(* function, "ended" once returned.  A cancellation by the caller shows   *)
(* as a probe that fails with the context's error.                        *)
(***************************************************************************)

\* How metadata.ReadMarker may end for block id: the marker parsed, one of the
\* two errors the filter tells apart, or another error.
ReadMarkerOutcomes(id) ==
    { IF id \in bktNoCompact THEN "found"
      ELSE IF id \in bktBadMarks THEN "unmarshal"
      ELSE "notfound",
      "other" }

\* A mutant of ProbeDoes: an unparseable marker fails the probe.
ProbeDoesStrict(o) ==
    IF o = "found" THEN "store"
    ELSE IF o = "notfound" THEN "skip"
    ELSE "fail"

\* What the probe does with ReadMarker's outcome (lines 1086-1106): record the
\* block, return nil without recording it, or return the error.
ProbeDoes(o) ==
    IF o = "found" THEN "store"
    ELSE IF o \in {"notfound", "unmarshal"} THEN "skip"
    ELSE "fail"

\* A mutant of FreshMap: the map of the earlier call is kept.
FreshMapKept(old) == old

\* f.noCompactMarkedMap = make(map...) (line 1075).
FreshMap(old) == {}

\* A mutant of MetasAfter: the block is removed whatever the option says.
MetasAfterAlways(metas, id, remove) == metas \ {id}

\* delete(metas, id) under f.removeNoCompactBlocks (lines 1102-1104).
MetasAfter(metas, id, remove) == IF remove THEN metas \ {id} ELSE metas

Min(a, b) == IF a < b THEN a ELSE b

IdleGo == [st |-> "idle", id |-> 0]

\* Filter is called on a filter that an earlier call may have used.
InitFilter ==
    /\ IdleErr
    /\ IdleJob
    /\ IdleSyncer
    /\ IdleSched
    /\ IdleGrouper
    /\ IdleOwn
    /\ IdleTest
    /\ IdleMetrics
    /\ bktBlocks = BlockIDs
    /\ bktPartial = {}
    /\ bktDelMarks = {}
    /\ numSamples = [b \in BlockIDs |-> 1]
    /\ bktNoCompact \in SUBSET BlockIDs
    /\ bktBadMarks \in SUBSET (BlockIDs \ bktNoCompact)
    /\ hpc = "idle"
    /\ hres = NoResult
    /\ rpc = "idle"
    /\ issue347Err = Nil
    /\ resid = 0
    /\ rperr = Nil
    /\ removeNoCompactBlocks \in BOOLEAN
    /\ noCompactMarkedMap \in SUBSET BlockIDs
    /\ filterMetas \in SUBSET BlockIDs
    /\ fpc = "call"
    /\ fch = {}
    /\ \E c \in 1..MaxFanOut :
          fgo = [g \in 1..Min(c, Cardinality(filterMetas)) |-> IdleGo]
    /\ fgErr = Nil
    /\ probed = [id \in filterMetas |-> "none"]
    /\ fret = Nil

\* Filter up to the start of ForEach's goroutines (lines 1075-1082); with no
\* ID, ForEach returns nil at once.
FilterBegin ==
    /\ fpc = "call"
    /\ noCompactMarkedMap' = FreshMap(noCompactMarkedMap)
    /\ fch' = filterMetas
    /\ IF filterMetas = {}
       THEN fpc' = "done" /\ fret' = Wrap(Nil)
       ELSE fpc' = "foreach" /\ fret' = fret
    /\ UNCHANGED <<bktBadMarks, removeNoCompactBlocks, filterMetas, fgo, fgErr, probed>>
    /\ UNCHANGED <<wkVars, notFilter>>

\* Goroutine g takes the next ID from the channel, or ends with the channel
\* empty; with the group's context done it returns instead of probing.
FilterTake(g) ==
    /\ fpc = "foreach"
    /\ fgo[g].st = "idle"
    /\ IF fch = {}
       THEN /\ fgo' = [fgo EXCEPT ![g].st = "ended"]
            /\ fch' = fch
       ELSE \E id \in fch :
               /\ fch' = fch \ {id}
               /\ fgo' = [fgo EXCEPT ![g] = IF fgErr # Nil
                                            THEN [st |-> "ended", id |-> 0]
                                            ELSE [st |-> "probing", id |-> id]]
    /\ UNCHANGED <<bktBadMarks, removeNoCompactBlocks, noCompactMarkedMap, filterMetas,
                   fpc, fgErr, probed, fret>>
    /\ UNCHANGED <<wkVars, notFilter>>

\* The probe of goroutine g: metadata.ReadMarker and what follows it (lines
\* 1083-1109).
FilterProbe(g) ==
    /\ fpc = "foreach"
    /\ fgo[g].st = "probing"
    /\ \E o \in ReadMarkerOutcomes(fgo[g].id), e \in {Plain, CtxErr} :
          /\ probed' = [probed EXCEPT ![fgo[g].id] = o]
          /\ IF ProbeDoes(o) = "store"
             THEN /\ noCompactMarkedMap' = noCompactMarkedMap \cup {fgo[g].id}
                  /\ filterMetas' = MetasAfter(filterMetas, fgo[g].id,
                                               removeNoCompactBlocks)
                  /\ fgo' = [fgo EXCEPT ![g] = IdleGo]
                  /\ fgErr' = fgErr
             ELSE IF ProbeDoes(o) = "skip"
             THEN /\ fgo' = [fgo EXCEPT ![g] = IdleGo]
                  /\ UNCHANGED <<noCompactMarkedMap, filterMetas, fgErr>>
             ELSE /\ fgo' = [fgo EXCEPT ![g] = [st |-> "ended", id |-> 0]]
                  /\ fgErr' = FirstErr(fgErr, e)
                  /\ UNCHANGED <<noCompactMarkedMap, filterMetas>>
    /\ UNCHANGED <<bktBadMarks, removeNoCompactBlocks, fpc, fch, fret>>
    /\ UNCHANGED <<wkVars, notFilter>>

\* ForEach returns once its goroutines have, and Filter returns its error
\* wrapped (line 1117).
FilterReturn ==
    /\ fpc = "foreach"
    /\ \A g \in 1..Len(fgo) : fgo[g].st = "ended"
    /\ fret' = Wrap(fgErr)
    /\ fpc' = "done"
    /\ UNCHANGED <<bktBadMarks, removeNoCompactBlocks, noCompactMarkedMap, filterMetas,
                   fch, fgo, fgErr, probed>>
    /\ UNCHANGED <<wkVars, notFilter>>

NextFilter ==
    \/ FilterBegin
    \/ \E g \in 1..Len(fgo) : FilterTake(g)
    \/ \E g \in 1..Len(fgo) : FilterProbe(g)
    \/ FilterReturn

SpecFilter == InitFilter /\ [][NextFilter]_vars

----------------------------------------------------------------------------
(***************************************************************************)
(* The three places that write a deletion mark, each under cancellation   *)
(* of the caller's context: GarbageCollect, runCompactionJob's calls of   *)
(* deleteBlock, and RepairIssue347.                                       *)
(***************************************************************************)

\* The caller's context is cancelled while runCompactionJob is in one of its
\* loops over deleteBlock (lines 468-480, 553-560).
CancelJob ==
    /\ jpc \in {"empty", "retire"}
    /\ ~ctxDone
    /\ ctxDone' = TRUE
    /\ UNCHANGED <<cpc, crerr, poolVars>>
    /\ UNCHANGED <<errVars, bktVars, jobVars, syVars, grpVars, ownVars, wkVars, fltVars,
                   testVars, metVars>>

InitMarks == InitGC \/ InitJob \/ InitWorker

NextMarks == NextGC \/ NextJob \/ CancelJob \/ NextWorker

SpecMarks == InitMarks /\ [][NextMarks]_vars

----------------------------------------------------------------------------
(***************************************************************************)
(* WriteReadSeriesTest: the continuous test that writes one sample per    *)
(* series every write interval and queries the range it has written.      *)
(* Times are counted in units of 10 seconds from the zero time.Time, so   *)
(* that IsZero() is "= 0".  The clock is past the first write interval.   *)
(* One pass of the write loop is one step; so is one range query.         *)
(***************************************************************************)
\* writeInterval = 20 * time.Second (line 19), in units of 10 seconds.
WriteInterval == 2

\* What WriteSeries returns as the status: 0 when no response came.
StatusCodes == {0, 200, 400, 500}

\* alignTimestampToInterval: ts rounded down to a multiple of the interval.
alignTimestampToInterval(ts, interval) == (ts \div interval) * interval

\* A mutant of nextWriteTimestamp: the timestamp is always taken from now.
nextWriteTimestampFromNow(last, n) == alignTimestampToInterval(n, WriteInterval)

\* nextWriteTimestamp (lines 240-246)
nextWriteTimestamp(last, n) ==
    IF last = 0 THEN alignTimestampToInterval(n, WriteInterval)
    ELSE last + WriteInterval

\* A mutant of Is4xx: no status is taken as a 4xx.
Is4xxNever(code) == FALSE

\* statusCode/100 == 4 (line 86)
Is4xx(code) == code \div 100 = 4

\* A mutant of WriteFailed: the error is not looked at.
WriteFailedByStatus(code, e) == code \div 100 # 2

\* statusCode/100 != 2 || err != nil (line 95)
WriteFailed(code, e) == code \div 100 # 2 \/ e

maxTime(a, b) == IF a > b THEN a ELSE b

minTime(a, b) == IF a < b THEN a ELSE b

\* Run(ctx, now) is called; the clock does not go back.
TestRun ==
    /\ tpc = "idle"
    /\ \E n \in maxTime(now, WriteInterval)..MaxNow : now' = n
    /\ tpc' = "write"
    /\ queried' = << >>
    /\ UNCHANGED <<lastWrittenTimestamp, queryMinTime, queryMaxTime, timestamp,
                   statusCode, writeErr, accepted>>
    /\ UNCHANGED notTest

\* The test of the write loop and one pass of its body (lines 71-105).
TestWrite ==
    /\ tpc = "write"
    /\ LET ts == nextWriteTimestamp(lastWrittenTimestamp, now) IN
       IF ts > now
       THEN /\ tpc' = "query"
            /\ UNCHANGED <<lastWrittenTimestamp, queryMinTime, queryMaxTime, timestamp,
                           statusCode, writeErr, accepted>>
       ELSE \E code \in StatusCodes, e \in BOOLEAN :
            /\ timestamp' = ts
            /\ statusCode' = code
            /\ writeErr' = e
            /\ accepted' = IF code \div 100 = 2 /\ ~e THEN accepted \cup {ts}
                           ELSE accepted
            /\ IF Is4xx(code)
               THEN /\ lastWrittenTimestamp' = ts
                    /\ queryMinTime' = 0
                    /\ queryMaxTime' = 0
                    /\ tpc' = "write"                        \* continue
               ELSE IF WriteFailed(code, e)
               THEN /\ tpc' = "query"                        \* break
                    /\ UNCHANGED <<lastWrittenTimestamp, queryMinTime, queryMaxTime>>
               ELSE /\ lastWrittenTimestamp' = ts
                    /\ queryMaxTime' = ts
                    /\ queryMinTime' = IF queryMinTime = 0 THEN ts ELSE queryMinTime
                    /\ tpc' = "write"
    /\ UNCHANGED <<now, queried>>
    /\ UNCHANGED notTest

\* One range of getQueryTimeRanges, here any range up to now, handed to
\* runRangeQueryAndVerifyResult (lines 107-110, 120-123, 166-182).
TestQuery ==
    /\ tpc = "query"
    /\ queryMinTime # 0
    /\ queryMaxTime # 0
    /\ \E a \in 0..now, b \in 0..now :
          LET start == maxTime(queryMinTime, alignTimestampToInterval(a, WriteInterval))
              end == minTime(queryMaxTime, alignTimestampToInterval(b, WriteInterval))
          IN  /\ a <= b
              /\ queried' = IF end < start THEN queried ELSE << start, end >>
    /\ UNCHANGED <<lastWrittenTimestamp, queryMinTime, queryMaxTime, tpc, now,
                   timestamp, statusCode, writeErr, accepted>>
    /\ UNCHANGED notTest

\* Run returns (line 114).
TestReturn ==
    /\ tpc = "query"
    /\ tpc' = "idle"
    /\ UNCHANGED <<lastWrittenTimestamp, queryMinTime, queryMaxTime, now, timestamp,
                   statusCode, writeErr, accepted, queried>>
    /\ UNCHANGED notTest

InitTest ==
    /\ IdleErr
    /\ IdleBucket
    /\ IdleJob
    /\ IdleSyncer
    /\ IdleSched
    /\ IdleGrouper
    /\ IdleOwn
    /\ IdleWorker
    /\ IdleFilter
    /\ IdleMetrics
    /\ lastWrittenTimestamp = 0
    /\ queryMinTime = 0
    /\ queryMaxTime = 0
    /\ tpc = "idle"
    /\ now = 0
    /\ timestamp = 0
    /\ statusCode = 0
    /\ writeErr = FALSE
    /\ accepted = {}
    /\ queried = << >>

NextTest == TestRun \/ TestWrite \/ TestQuery \/ TestReturn

SpecTest == InitTest /\ [][NextTest]_vars

\* Run does not stop in the middle of its write loop.
SpecTestFair == SpecTest /\ WF_vars(TestWrite)

\* What a finished call of runCompactionJob returned is one of JobResults.
JobResultListed ==
    jpc = "done" =>
        [sr |-> shouldRerun, ids |-> retIDs, e |-> rerr] \in JobResults(job, JobErrors(job))

-----------------------------------------------------------------------------
(***************************************************************************)
(* SpecGroups: one call of DefaultGrouper.Groups, followed step by step.   *)
(* The metas carry any labels and resolution; the range over the map       *)
(* visits the blocks in any order.                                         *)
(***************************************************************************)
LabelSets == 0..MaxLabels

Resolutions == 0..MaxRes

\* NewJob (lines 280-289): a job without metas.
NewJob(key, lbls, rs) ==
    [key |-> key, labels |-> lbls, resolution |-> rs, metas |-> << >>,
     useSplitting |-> FALSE, splitNumShards |-> 0]

\* Job.AppendMeta when it succeeds: the block joins the job's metas, which are
\* kept in ascending order (the IDs stand for the blocks' min times).
AppendMeta(j, b) ==
    [j EXCEPT !.metas = Ascending({ j.metas[i] : i \in 1..Len(j.metas) } \cup {b})]

\* sort.Slice by Key (lines 298-300); the keys of res are distinct.
RECURSIVE SortedByKey(_)
SortedByKey(js) ==
    IF js = << >> THEN << >>
    ELSE LET i == CHOOSE x \in 1..Len(js) :
                      \A y \in 1..Len(js) : x = y \/ KeyLess(js[x].key, js[y].key)
         IN << js[i] >> \o SortedByKey(SelectSeq2(js, (1..Len(js)) \ {i}, 1))

InitGroups ==
    /\ IdleErr
    /\ IdleBucket
    /\ IdleJob
    /\ IdleSyncer
    /\ IdleSched
    /\ IdleOwn
    /\ IdleWorker
    /\ IdleFilter
    /\ IdleTest
    /\ IdleMetrics
    /\ gpc = "range"
    /\ metaLabels \in [BlockIDs -> LabelSets]
    /\ metaRes \in [BlockIDs -> Resolutions]
    /\ grpBlocks \in SUBSET BlockIDs
    /\ grpLeft = grpBlocks
    /\ grpRes = << >>
    /\ grpRet = Nil

\* One pass of the range loop, for block b (lines 276-296).
GroupsRange(b) ==
    /\ gpc = "range"
    /\ b \in grpLeft
    /\ LET groupKey == defaultGroupKey(metaRes[b], metaLabels[b])
           ok == \E i \in 1..Len(grpRes) : grpRes[i].key = groupKey
           res1 == IF ok THEN grpRes
                   ELSE Append(grpRes, NewJob(groupKey, metaLabels[b], metaRes[b]))
           i == CHOOSE x \in 1..Len(res1) : res1[x].key = groupKey
       IN \/ /\ grpRes' = [res1 EXCEPT ![i] = AppendMeta(@, b)]
             /\ grpLeft' = grpLeft \ {b}
             /\ UNCHANGED <<gpc, grpRet>>
          \/ /\ grpRes' = << >>                    \* AppendMeta failed
             /\ grpRet' = Wrap(Plain)
             /\ gpc' = "done"
             /\ UNCHANGED grpLeft
    /\ UNCHANGED <<metaLabels, metaRes, grpBlocks>>
    /\ UNCHANGED notGroups

\* The sort and the return (lines 298-301).
GroupsSort ==
    /\ gpc = "range"
    /\ grpLeft = {}
    /\ grpRes' = SortedByKey(grpRes)
    /\ gpc' = "done"
    /\ UNCHANGED <<metaLabels, metaRes, grpBlocks, grpLeft, grpRet>>
    /\ UNCHANGED notGroups

NextGroups == (\E b \in BlockIDs : GroupsRange(b)) \/ GroupsSort

SpecGroups == InitGroups /\ [][NextGroups]_vars

\* The jobs Compact's step takes from Groups are the jobs the loop builds,
\* for the labels and resolution that step gives the blocks.
GroupsAsLoop ==
    ( /\ gpc = "done"
      /\ grpRet = Nil
      /\ \A b \in BlockIDs : metaLabels[b] = LabelsOf(b) /\ metaRes[b] = ResolutionOf(b) )
    => /\ Len(grpRes) = Len(Groups(grpBlocks))
       /\ \A i \in 1..Len(grpRes) :
             /\ grpRes[i].key = Groups(grpBlocks)[i].key
             /\ grpRes[i].metas = Groups(grpBlocks)[i].metas

----------------------------------------------------------------------------
(***************************************************************************)
(* SpecErr: the classification functions on bounded errors.  The error    *)
(* under test is built with the constructors above from a recipe, and the *)
(* recipe is the ground truth the classification is compared with.        *)
(***************************************************************************)
Classes == {"halt", "retry", "plain", "i347", "ooo"}

\* The errors runCompactionJob builds (lines 421-443, 465, 529, 535, 555).
MkErr(k) ==
    CASE k = "halt"  -> halt(Wrap(Plain))
      [] k = "retry" -> retry(Wrap(Plain))
      [] k = "i347"  -> issue347Error(Wrap(Plain), 1)
      [] k = "ooo"   -> outOfOrderChunkError(Wrap(Plain), 1)
      [] OTHER       -> Plain

RECURSIVE WrapN(_, _)
WrapN(e, n) == IF n = 0 THEN e ELSE Wrap(WrapN(e, n - 1))

ChildSpecs == [k : Classes, w : 0..MaxWrap]

Recipes == UNION { [1..n -> ChildSpecs] : n \in 1..MaxChildren }

MkChild(c) == WrapN(MkErr(c.k), c.w)

RECURSIVE AddAll(_, _, _)
AddAll(es, r, i) ==
    IF i > Len(r) THEN es ELSE AddAll(MultiAdd(es, MkChild(r[i])), r, i + 1)

InitErr ==
    /\ recipe \in Recipes
    /\ isMulti \in BOOLEAN
    /\ (~isMulti) => Len(recipe) = 1
    /\ \E n \in 0..MaxWrap :
          err = WrapN(IF isMulti THEN MultiErr(AddAll(<< >>, recipe, 1))
                      ELSE MkChild(recipe[1]), n)
    /\ res = Nil
    /\ op = "none"
    /\ cls = [halt |-> FALSE, retry |-> FALSE]
    /\ IdleBucket
    /\ IdleJob
    /\ IdleSyncer
    /\ IdleSched
    /\ IdleGrouper
    /\ IdleOwn
    /\ IdleWorker
    /\ IdleFilter
    /\ IdleTest
    /\ IdleMetrics

Classify(e) == [halt |-> IsHaltError(e), retry |-> IsRetryError(e)]

\* IsHaltError(err) and IsRetryError(err)
ApplyClassify ==
    /\ op = "none"
    /\ res' = err
    /\ cls' = Classify(err)
    /\ op' = "classify"
    /\ UNCHANGED <<recipe, isMulti, err>>
    /\ UNCHANGED notErr

\* retry(err), then the classification of what it returned
ApplyRetry ==
    /\ op = "none"
    /\ res' = retry(err)
    /\ cls' = Classify(retry(err))
    /\ op' = "retry"
    /\ UNCHANGED <<recipe, isMulti, err>>
    /\ UNCHANGED notErr

\* errors.Wrap(err, msg), then the classification of what it returned
ApplyWrap ==
    /\ op = "none"
    /\ res' = Wrap(err)
    /\ cls' = Classify(Wrap(err))
    /\ op' = "wrap"
    /\ UNCHANGED <<recipe, isMulti, err>>
    /\ UNCHANGED notErr

NextErr == ApplyClassify \/ ApplyRetry \/ ApplyWrap

SpecErr == InitErr /\ [][NextErr]_vars

\* SpecVerify: the function of ForEach at lines 414-446 applied to one planned
\* block, for every outcome of the download and of the index health checks.
InitVerify ==
    /\ recipe \in [id : BlockIDs, dlOK : BOOLEAN, gatherOK : BOOLEAN, stats : HealthStats]
    /\ isMulti = FALSE
    /\ err = Nil
    /\ res = Nil
    /\ op = "none"
    /\ cls = [halt |-> FALSE, retry |-> FALSE]
    /\ IdleBucket
    /\ IdleJob
    /\ IdleSyncer
    /\ IdleSched
    /\ IdleGrouper
    /\ IdleOwn
    /\ IdleWorker
    /\ IdleFilter
    /\ IdleTest
    /\ IdleMetrics

\* The function returns, and its error is classified.
ApplyVerify ==
    /\ op = "none"
    /\ res' = DownloadAndVerify(recipe.id, recipe.dlOK, recipe.gatherOK, recipe.stats)
    /\ cls' = Classify(res')
    /\ op' = "verify"
    /\ UNCHANGED <<recipe, isMulti, err>>
    /\ UNCHANGED notErr

NextVerify == ApplyVerify

SpecVerify == InitVerify /\ [][NextVerify]_vars

\* Ground truth read off the recipe.
SomeChild(k) == \E i \in 1..Len(recipe) : recipe[i].k = k

EveryChild(k) == \A i \in 1..Len(recipe) : recipe[i].k = k

\* C7: a non-empty multi-error of Halt, Retry and unclassified children, each
\* possibly message-wrapped, is Halt iff some child is Halt and Retry iff every
\* child is Retry.
C7_MultiClassification ==
    (op = "classify" /\ isMulti) =>
        /\ cls.halt <=> SomeChild("halt")
        /\ cls.retry <=> EveryChild("retry")

\* C7 witness: multi(retry, wrapped halt) was classified Halt and not Retry.
C7_Witness ==
    /\ op = "classify"
    /\ isMulti
    /\ Len(recipe) = 2
    /\ recipe[1].k = "retry"
    /\ recipe[2].k = "halt"
    /\ recipe[2].w > 0
    /\ cls.halt
    /\ ~cls.retry

\* C8: retry of a Halt error (plain, message-wrapped or a multi-error with a Halt
\* child) returns it unchanged; a message wrapper keeps it Halt and not Retry;
\* retry of an error that is not Halt yields a Retry error.
C8_HaltSticky ==
    /\ (op = "retry" /\ SomeChild("halt")) => res = err /\ cls.halt
    /\ (op = "retry" /\ ~SomeChild("halt")) => cls.retry
    /\ (op = "wrap" /\ SomeChild("halt")) => cls.halt /\ ~cls.retry

\* C8 witness: retry applied to a multi-error with a Halt child returned it as is.
C8_Witness ==
    /\ op = "retry"
    /\ isMulti
    /\ Len(recipe) = 2
    /\ SomeChild("halt")
    /\ SomeChild("retry")
    /\ res = err
    /\ cls.halt

----------------------------------------------------------------------------
(***************************************************************************)
(* Claims about runCompactionJob (SpecJob).                               *)
(***************************************************************************)
\* Output i of the merge is in the bucket in full, after its index verification.
OutputUploaded(i) == up[i].st = "uploaded" /\ compIDs[i] \in bktBlocks

\* C1: with a non-empty merge result, an input of the plan carries a deletion mark
\* only when every non-zero output has passed verification and is uploaded: "an
\* input marked while an output is missing" is no state of the job, wherever it
\* stops.
C1_NoDataLoss ==
    (hasNonZeroULIDs(compIDs) /\ bktDelMarks # {}) =>
        /\ \A i \in 1..Len(compIDs) : compIDs[i] # 0 => OutputUploaded(i)
        /\ jpc \in {"retire", "done"}

\* C1 witness: a split merge with an empty and a non-empty shard, the non-empty
\* one uploaded, and the first input marked while the second is not yet.
C1_Witness ==
    /\ jpc = "retire"
    /\ Len(compIDs) = 2
    /\ compIDs[1] = 0
    /\ compIDs[2] # 0
    /\ OutputUploaded(2)
    /\ Len(toCompact) = 2
    /\ bktDelMarks = {toCompact[1]}

----------------------------------------------------------------------------
(***************************************************************************)
(* Claims about the Syncer (SpecGC).                                      *)
(***************************************************************************)
\* The duplicates that are not in the deletion-mark map, in their order.
Garbage == SelectSeq(dupIDs, LAMBDA id : id \notin delMarkMap)

\* The first n of them.
GarbagePrefix(n) == { Garbage[i] : i \in 1..n }

\* C9: GarbageCollect handles exactly the duplicates that are not in the
\* deletion-mark map, in order; after k successful marks the first k of them are
\* marked and removed from the snapshot, nothing else is marked or removed; it
\* ends successfully only when all of them are; it returns an error for the k-th
\* with exactly the first k-1 marked and removed.
C9_GarbageCollectExact ==
    cpc \in {"gcloop", "groups", "ret_gc"} /\ gi > 0 =>
        /\ garbageIDs = Garbage
        /\ gi \in 1..(Len(Garbage) + 1)
        /\ bktDelMarks = gcStart.marks \cup GarbagePrefix(gi - 1)
        /\ blocks = gcStart.blocks \ GarbagePrefix(gi - 1)
        /\ cpc = "groups" => gi = Len(Garbage) + 1
        /\ cpc = "ret_gc" => gi <= Len(Garbage)

\* C9 witness: the second mark failed; the first garbage ID is marked and gone from
\* the snapshot, the second is still in the snapshot and unmarked.
C9_Witness ==
    /\ cpc = "ret_gc"
    /\ ~ctxDone
    /\ gi = 2
    /\ Len(garbageIDs) = 2
    /\ Len(dupIDs) = 2
    /\ garbageIDs[1] \in gcStart.blocks
    /\ garbageIDs[1] \notin blocks
    /\ garbageIDs[1] \in bktDelMarks
    /\ garbageIDs[2] \in blocks
    /\ garbageIDs[2] \notin bktDelMarks

----------------------------------------------------------------------------
(***************************************************************************)
(* Claims about Compact's scheduling, each checked under Spec.            *)
(***************************************************************************)
\* The keys of the jobs that passed filterOwnJobs in this iteration.
JobKeys == { jobs[i].key : i \in 1..Len(jobs) }

\* Worker w leaves its ownership check in this step.
Checked(w) == wpc[w] = "check" /\ wpc'[w] # "check"

\* No job that ownJob reported not owned is inside runCompactionJob.
C2_NotOwnedNotRun ==
    /\ JobKeys \cap notOwned \subseteq { jobs[i].key : i \in 1..(ji - 1) }
    /\ \A w \in Workers : wpc[w] = "run" => wjob[w].key \notin notOwned

\* A worker that is told the job is not owned goes back to the job channel, and
\* that step sends no error, leaves finishedAllJobs alone and touches no block.
C2_SkipIsSilent ==
    \A w \in Workers :
        Checked(w) /\ wjob[w].key \in notOwned' =>
            /\ wpc'[w] = "recv"
            /\ UNCHANGED <<errChan, reported, finishedAllJobs, rerun, bktVars>>

\* C2: a job that ownJob reports as not owned, in filterOwnJobs or at the
\* worker's re-check, is never passed to runCompactionJob in that iteration: a
\* filtered job is never sent, a job refused at the re-check is not run; the
\* skip sends no error and does not set finishedAllJobs to false.
C2_Ownership == [](C2_NotOwnedNotRun) /\ [][C2_SkipIsSilent]_vars

\* C2 witness: Compact returned nil from an iteration in which filterOwnJobs
\* removed one job and a worker's re-check refused another; no error was
\* reported and finishedAllJobs is still true.
C2_Witness ==
    /\ cpc = "ret_nil"
    /\ notOwned \ JobKeys # {}
    /\ notOwned \cap JobKeys # {}
    /\ reported = {}
    /\ finishedAllJobs

\* The Scheduler leaves wg.Wait() and the drain in this step.
Leaves == cpc = "wait" /\ cpc' # "wait"

\* The pool and the channels of a new iteration (lines 879-956).
FreshPool ==
    /\ \A w \in Workers : wpc'[w] = "recv"
    /\ errChan' = << >>
    /\ finishedAllJobs'

\* C3: after the workers of an iteration are joined and no worker reported an
\* error, Compact returns nil if the deadline was reached during dispatch or no
\* job asked for another pass; otherwise (a job returned shouldRerun, or a
\* repair or a no-compact marking succeeded) it starts another iteration, with
\* a new pool, at SyncMetas. finishedAllJobs is false exactly when a job asked.
C3_OuterLoop ==
    /\ [](Running => (finishedAllJobs <=> ~rerun))
    /\ [][Leaves /\ reported = {} =>
            IF maxCompactionTimeReached \/ ~rerun
            THEN cpc' = "ret_nil" /\ crerr' = Nil
            ELSE cpc' = "sync" /\ iter' = iter + 1 /\ FreshPool]_vars

\* C3 witness: the second iteration has started at SyncMetas although the first
\* reported no error, because a job of the first asked for another pass.
C3_Witness ==
    /\ iter = 2
    /\ cpc = "sync"
    /\ \A w \in Workers : wpc[w] = "recv"
    /\ finishedAllJobs

\* The children of the multi-error e, as a set.
Children(e) == { Head(e).ch[i] : i \in 1..Len(Head(e).ch) }

\* What Compact returns after the join holds what the workers reported.
C4_NothingLost ==
    /\ cpc = "ret_errs" =>
          /\ HasType(crerr, "multi")
          /\ Children(crerr) = reported
          /\ Len(Head(crerr).ch) = Cardinality(reported)
          /\ reported # {}
    /\ cpc = "ret_nil" => crerr = Nil /\ reported = {}
    /\ cpc \in {"ret_errs", "ret_nil"} => Joined /\ errChan = << >>

Handed == \E w \in Workers : wpc[w] = "recv" /\ wpc'[w] = "check"

\* C5: once maxCompactionTime has elapsed (the timer has fired) no job is handed
\* to a worker, in this iteration or a later one; with maxCompactionTime 0 the
\* deadline never fires.
C5_Deadline ==
    /\ [][(timer \in {"fired", "taken"}) => ~Handed]_vars
    /\ [](timer = "none" => ~maxCompactionTimeReached)

\* With maxCompactionTime 0 the deadline is never reached; once the Scheduler
\* has taken the deadline from the select no job is handed to a worker.
C5_AfterDeadlineTaken ==
    /\ [][timer = "taken" => (~Handed)]_vars
    /\ [](timer = "none" => ~maxCompactionTimeReached)

\* C6: when the deadline is taken in the select the workers are left as they
\* are (no job is cancelled); Compact returns only after every worker has ended;
\* and if none reported an error it returns nil whatever finishedAllJobs is.
C6_DeadlineDrain ==
    /\ [][~maxCompactionTimeReached /\ maxCompactionTimeReached' =>
            wpc' = wpc /\ wjob' = wjob /\ cpc' = "wait"]_vars
    /\ [](cpc \in {"ret_errs", "ret_nil"} => Joined)
    /\ [][Leaves /\ maxCompactionTimeReached /\ reported = {} =>
            cpc' = "ret_nil" /\ crerr' = Nil]_vars

\* C6 witness: Compact returned nil after the deadline stopped the dispatch with
\* a job handed out before and a job left unsent, and finishedAllJobs is false.
C6_Witness ==
    /\ cpc = "ret_nil"
    /\ maxCompactionTimeReached
    /\ ~finishedAllJobs
    /\ ji > 1
    /\ ji <= Len(jobs)

\* The error SyncMetas or GarbageCollect returned, under Compact's wrapper.
Inner(e) == Tail(e)

\* Compact returned from SyncMetas or GarbageCollect with no job dispatched.
NothingDispatched ==
    /\ \A w \in Workers : wpc[w] = "recv"
    /\ jobs = << >>
    /\ ji = 0

\* C10 as stated: every error SyncMetas or GarbageCollect returns is Retry and
\* not Halt, also under Compact's 'sync' or 'garbage' wrapper, and Compact
\* returns it without dispatching a job.
C10_AlwaysRetry ==
    cpc \in {"ret_sync", "ret_gc"} =>
        /\ IsRetryError(Inner(crerr)) /\ ~IsHaltError(Inner(crerr))
        /\ IsRetryError(crerr) /\ ~IsHaltError(crerr)
        /\ NothingDispatched

\* The errors of SyncMetas and of a failed deletion mark are Retry and not Halt,
\* also under Compact's wrapper; the error of a cancelled context is neither.
C10_Classes ==
    /\ cpc = "ret_sync" =>
          /\ IsRetryError(Inner(crerr)) /\ ~IsHaltError(Inner(crerr))
          /\ IsRetryError(crerr) /\ ~IsHaltError(crerr)
    /\ cpc = "ret_gc" /\ ~ctxDone =>
          /\ IsRetryError(Inner(crerr)) /\ ~IsHaltError(Inner(crerr))
          /\ IsRetryError(crerr) /\ ~IsHaltError(crerr)
    /\ cpc = "ret_gc" /\ ctxDone =>
          /\ Inner(crerr) = CtxErr
          /\ ~IsRetryError(crerr) /\ ~IsHaltError(crerr)
    /\ cpc \in {"ret_sync", "ret_gc"} => NothingDispatched

\* C10, amended: every error SyncMetas returns, and the error GarbageCollect
\* returns for a failed deletion mark, is Retry and never Halt, also under
\* Compact's wrapper; when the context is cancelled GarbageCollect returns
\* ctx.Err(), which is neither Retry nor Halt. A SyncMetas error leaves the
\* snapshot and the partial map as they were, and Compact returns either error
\* without dispatching a job.
C10_SyncAndGCErrors ==
    /\ [](C10_Classes)
    /\ [][cpc = "sync" /\ cpc' = "ret_sync" =>
            blocks' = blocks /\ partial' = partial]_vars

\* C10 witness: SyncMetas failed in the second iteration; Compact returned the
\* Retry error and the snapshot of the first iteration is still there.
C10_Witness ==
    /\ cpc = "ret_sync"
    /\ iter = 2
    /\ blocks # {}
    /\ IsRetryError(crerr)

-----------------------------------------------------------------------------
(***************************************************************************)
(* Claims about the order of one iteration of Compact, checked under Spec. *)
(***************************************************************************)

\* The IDs GarbageCollect of the running iteration takes for garbage.
GarbageSet == { Garbage[i] : i \in 1..Len(Garbage) }

\* The blocks of the jobs built in the running iteration, and of the jobs the
\* workers hold.
GroupedBlocks ==
    UNION { { jobs[i].metas[m] : m \in 1..Len(jobs[i].metas) } : i \in 1..Len(jobs) }
    \cup UNION { { wjob[w].metas[m] : m \in 1..Len(wjob[w].metas) } : w \in Workers }

\* The steps of one iteration come in the order SyncMetas, GarbageCollect,
\* Groups, dispatch.
C11_Order ==
    /\ cpc' = "gc" /\ cpc # "gc" => cpc = "sync"
    /\ cpc' = "gcloop" /\ cpc # "gcloop" => cpc = "gc"
    /\ cpc' = "groups" /\ cpc # "groups" =>
          cpc = "gcloop" /\ gi > Len(garbageIDs) /\ crerr = Nil
    /\ cpc' \in {"dispatch", "wait"} /\ cpc \notin {"dispatch", "wait"} =>
          cpc = "groups"
    /\ \A w \in Workers :
          wpc'[w] \in {"check", "run"} /\ wpc[w] = "recv" => cpc = "dispatch"

\* C11: a worker holds a job only after SyncMetas and then GarbageCollect of
\* the iteration have both ended without error; the snapshot handed to Groups,
\* and so every job built from it, holds no ID that GarbageCollect of the
\* iteration took for garbage (a duplicate without a deletion mark).
C11_SyncGCBeforeJobs ==
    /\ [](/\ (\E w \in Workers : wpc[w] \in {"check", "run"}) =>
                cpc \in {"dispatch", "wait"}
          /\ cpc \in {"sync", "gc", "gcloop", "groups"} => jobs = << >>
          /\ cpc = "groups" => blocks \cap GarbageSet = {}
          /\ cpc \in {"dispatch", "wait"} => GroupedBlocks \cap GarbageSet = {})
    /\ [][C11_Order]_vars

\* C11 witness: a worker runs a job of an iteration whose GarbageCollect marked
\* a duplicate that was in the snapshot's fetch.
C11_Witness ==
    /\ \E w \in Workers : wpc[w] = "run"
    /\ GarbageSet # {}
    /\ GarbageSet \subseteq bktDelMarks
    /\ blocks # {}


-----------------------------------------------------------------------------
(***************************************************************************)
(* Claims about DefaultGrouper.Groups, checked under SpecGroups.           *)
(***************************************************************************)

\* The blocks of the i-th job Groups returned.
MetasOf(i) == { grpRes[i].metas[m] : m \in 1..Len(grpRes[i].metas) }

\* C12: when Groups returns without error its jobs partition the blocks it was
\* given: every block is in exactly one job, once, and no job holds anything
\* else; two blocks are in the same job iff their resolutions and the hashes of
\* their labels are equal; every block of a job has the job's labels and
\* resolution.
C12_GroupsPartition ==
    gpc = "done" /\ grpRet = Nil =>
        /\ \A b \in grpBlocks :
              Cardinality({ i \in 1..Len(grpRes) : b \in MetasOf(i) }) = 1
        /\ \A i \in 1..Len(grpRes) :
              /\ MetasOf(i) \subseteq grpBlocks
              /\ Len(grpRes[i].metas) = Cardinality(MetasOf(i))
              /\ \A b \in MetasOf(i) :
                    /\ metaLabels[b] = grpRes[i].labels
                    /\ metaRes[b] = grpRes[i].resolution
        /\ \A a, b \in grpBlocks :
              (\E i \in 1..Len(grpRes) : a \in MetasOf(i) /\ b \in MetasOf(i))
              <=> (metaRes[a] = metaRes[b] /\ Hash(metaLabels[a]) = Hash(metaLabels[b]))

\* C12 witness: Groups returned two blocks of one key in one job, of labels
\* and resolution other than the default.
C12_Witness ==
    /\ gpc = "done"
    /\ grpRet = Nil
    /\ Len(grpRes) = 1
    /\ Len(grpRes[1].metas) = 2
    /\ grpRes[1].resolution = 1
    /\ grpRes[1].labels = 1


-----------------------------------------------------------------------------
(***************************************************************************)
(* Claims about the work directories, checked under SpecBoth.              *)
(***************************************************************************)

\* Compact has returned.
Returned == cpc \in {"ret_sync", "ret_gc", "ret_groups", "ret_own", "ret_errs", "ret_nil"}

\* The keys of the jobs whose errors the workers reported.
ReportedKeys == { k \in JobKeys : \E e \in reported : e[1].id = KeyText(k) }

\* C15: runCompactionJob calls os.RemoveAll on its job directory iff it returns
\* a nil error, and then the directory is gone unless the removal failed; until
\* then, and on every error return, a directory that is there stays there.
\* Compact calls os.RemoveAll on compactDir iff it returns nil; when it returns
\* the workers' errors, no removal was called on the directory of any job that
\* failed.
C15_WorkDirs ==
    /\ [](/\ jpc = "done" => /\ rmAll # "none" <=> rerr = Nil
                             /\ rmAll = "ok" => ~subDir
                             /\ rmAll = "err" => subDir
          /\ jpc # "done" => rmAll = "none"
          /\ Returned => (rmCompactDir # "none" <=> crerr = Nil)
          /\ ~Returned => rmCompactDir = "none"
          /\ cpc = "ret_errs" => ReportedKeys # {} /\ ReportedKeys \subseteq workDirs)
    /\ [][/\ (jpc' # "done" \/ rerr' # Nil) /\ subDir => subDir'
          /\ (jpc \notin {"idle", "start", "done"}) => subDir]_vars

\* C15 witness: Compact returned a halt error of one job; that job's directory
\* was left alone and the directory of the other job, which returned nil, was
\* removed; compactDir was not removed.
C15_Witness ==
    /\ cpc = "ret_errs"
    /\ Len(jobs) = 2
    /\ \E e \in reported : IsHaltError(e)
    /\ Cardinality(workDirs) = 1
    /\ rmCompactDir = "none"
    /\ IsHaltError(crerr)


-----------------------------------------------------------------------------
(***************************************************************************)
(* Claims about the steps of runCompactionJob and what Compact makes of    *)
(* their results, checked under SpecBoth or SpecJob.                       *)
(***************************************************************************)

\* The bucket is as it was when runCompactionJob was called.
BucketUntouched ==
    /\ bktBlocks = BlockIDs
    /\ bktPartial = {}
    /\ bktDelMarks = {}

\* C16: with an empty plan runCompactionJob returns (false, no IDs, nil) having
\* downloaded, merged, uploaded and marked nothing, and no other return is
\* (false, nil); an iteration of Compact in which no job asked for another
\* pass and none failed, so one whose jobs all had an empty plan, leaves
\* finishedAllJobs true and ends the outer loop with nil.
C16_EmptyPlan ==
    /\ [](/\ toCompact = << >> =>
                /\ jpc \in {"idle", "start", "done"}
                /\ dl = << >> /\ compIDs = << >> /\ up = << >>
                /\ BucketUntouched \/ jpc = "idle"
          /\ jpc = "done" /\ toCompact = << >> /\ rerr = Nil =>
                ~shouldRerun /\ retIDs = << >>
          /\ jpc = "done" /\ rerr = Nil /\ ~shouldRerun => toCompact = << >>)
    /\ [][Leaves /\ ~rerun /\ reported = {} =>
             finishedAllJobs /\ cpc' = "ret_nil" /\ crerr' = Nil]_vars

\* C16 witness: both jobs of the first iteration were run and neither asked for
\* another pass; Compact returned nil after that iteration.
C16_Witness ==
    /\ cpc = "ret_nil"
    /\ iter = 1
    /\ Len(jobs) = 2
    /\ ji = 3
    /\ notOwned = {}
    /\ ~rerun
    /\ reported = {}
    /\ workDirs = {}
    /\ ~maxCompactionTimeReached
    /\ finishedAllJobs


\* The block ID an out-of-order or issue-347 error carries.
BrokenBlock(e) == Head(Cause(e)).id

\* C17: for a planned block a failed download gives a Retry error; with the
\* health stats gathered, a critical error gives a Halt error whatever else the
\* stats hold, else out-of-order chunks give an OutOfOrderChunksError with the
\* block's ID, else issue-347 chunks give an Issue347Error with the block's ID,
\* else Prometheus issue 5372 gives an error of none of these classes, else nil.
C17_DownloadVerify ==
    op = "verify" =>
        LET st == recipe.stats
            checked == recipe.dlOK /\ recipe.gatherOK
            plain == /\ res # Nil
                     /\ ~cls.halt /\ ~cls.retry
                     /\ ~IsOutOfOrderChunkError(res) /\ ~IsIssue347Error(res)
        IN /\ ~recipe.dlOK => cls.retry /\ ~cls.halt
           /\ checked /\ st.critical => cls.halt /\ ~cls.retry
           /\ checked /\ ~st.critical /\ st.ooo =>
                 /\ IsOutOfOrderChunkError(res) /\ BrokenBlock(res) = recipe.id
                 /\ ~cls.halt /\ ~cls.retry
           /\ checked /\ ~st.critical /\ ~st.ooo /\ st.i347 =>
                 /\ IsIssue347Error(res) /\ BrokenBlock(res) = recipe.id
                 /\ ~cls.halt /\ ~cls.retry
           /\ checked /\ ~st.critical /\ ~st.ooo /\ ~st.i347 /\ st.p5372 => plain
           /\ checked /\ ~st.critical /\ ~st.ooo /\ ~st.i347 /\ ~st.p5372 => res = Nil

\* C17 witness: block 2 has a critical error, out-of-order chunks and issue-347
\* chunks at once, and is reported as Halt.
C17_Witness ==
    /\ op = "verify"
    /\ recipe.id = 2
    /\ recipe.dlOK /\ recipe.gatherOK
    /\ recipe.stats.critical /\ recipe.stats.ooo /\ recipe.stats.i347
    /\ cls.halt


\* The errors the function of the download ForEach returned.
BlockErrors == { dl[i].e : i \in { n \in 1..Len(dl) : dl[n].st = "err" } }

\* The merger has been called: the job is in or past the call.
MergerCalled == jpc \in {"merge", "empty", "upload", "retire"} \/ compIDs # << >>

\* C18: the merger is called only with every planned block downloaded and
\* checked without error; when a block failed the job returns one of the
\* blocks' errors as it is, and nothing was merged, uploaded or marked; a
\* failure of the merger is returned as a Halt error.
C18_MergeAfterVerify ==
    /\ [](/\ MergerCalled =>
                /\ Len(dl) = Len(toCompact)
                /\ \A i \in 1..Len(dl) : dl[i].st = "ok" /\ dl[i].e = Nil
          /\ BlockErrors # {} =>
                /\ jpc \in {"download", "done"}
                /\ compIDs = << >> /\ up = << >>
                /\ BucketUntouched
                /\ jpc = "done" => /\ rerr \in BlockErrors
                                   /\ ~shouldRerun /\ retIDs = << >>)
    /\ [][jpc = "merge" /\ jpc' = "done" =>
             /\ IsHaltError(rerr')
             /\ ~shouldRerun' /\ retIDs' = << >>
             /\ UNCHANGED bktVars]_vars

\* C18 witness: both planned blocks failed, with different errors; the job
\* returned the error of the second, which ended first.
C18_Witness ==
    /\ jpc = "done"
    /\ Len(dl) = 2
    /\ dl[1].st = "err" /\ dl[2].st = "err"
    /\ IsHaltError(dl[1].e)
    /\ IsOutOfOrderChunkError(dl[2].e)
    /\ rerr = dl[2].e


\* runCompactionJob returned through the branch for a merge without output
\* (lines 468-480).
EmptyResultReturned ==
    jpc = "done" /\ compIDs # << >> /\ ~hasNonZeroULIDs(compIDs)

\* The planned blocks without samples.
PlannedEmpty ==
    { toCompact[i] : i \in { n \in 1..Len(toCompact) : numSamples[toCompact[n]] = 0 } }

\* What C19 says of that return apart from the progress: nothing uploaded,
\* deleteBlock called for exactly the planned blocks without samples, marks
\* only on them, (true, nil) returned.
EmptyResultHandled ==
    /\ bktBlocks = BlockIDs /\ bktPartial = {}
    /\ up = << >>
    /\ delTried = PlannedEmpty
    /\ bktDelMarks \subseteq delTried
    /\ shouldRerun /\ retIDs = << >> /\ rerr = Nil

\* C19 as stated: when every output ID is zero nothing is uploaded, a deletion
\* mark is issued for exactly the planned inputs without samples, (true, nil)
\* is returned, and at least one empty input was marked for deletion.
C19_EmptyResultProgress ==
    EmptyResultReturned =>
        /\ EmptyResultHandled
        /\ PlannedEmpty \cap bktDelMarks # {}

\* What does hold of the empty result: nothing is uploaded, deleteBlock is
\* called for exactly the planned inputs without samples, only such inputs get
\* a mark, and (true, nil) is returned whether or not any input was marked.
EmptyResultFrame ==
    /\ EmptyResultReturned => EmptyResultHandled
    /\ jpc = "empty" => /\ delTried \subseteq PlannedEmpty
                        /\ bktDelMarks \subseteq delTried
                        /\ bktBlocks = BlockIDs /\ bktPartial = {}

\* Both planned inputs have samples and the merge gave no output: nothing was
\* marked and the job asked for another pass.
EmptyResultNoProgress ==
    /\ EmptyResultReturned
    /\ Len(toCompact) = 2
    /\ PlannedEmpty = {}
    /\ bktDelMarks = {}
    /\ shouldRerun
    /\ rerr = Nil


\* C13, in the form a finite run refutes: Compact starts another iteration
\* only because a job asked for it, so the iterations come to an end only if a
\* job that asks for another pass has changed the bucket; with nothing failed,
\* a job that returns (true, nil) has uploaded a block or marked one for
\* deletion.  Otherwise the next iteration fetches, groups, plans and merges
\* the same blocks again, and so does every iteration after it.
C13_Convergence ==
    ( /\ jpc = "done"
      /\ rerr = Nil
      /\ shouldRerun
      /\ rmAll = "ok"
      /\ delTried \subseteq bktDelMarks )
    => ~BucketUntouched


\* The errors the function of the upload ForEach returned.
UpErrors == { up[i].e : i \in { n \in 1..Len(up) : up[n].st = "err" } }

\* C20: an output with the zero ID is never verified or uploaded; block.Upload
\* is called for a non-zero output only once its index verification has
\* succeeded; a failed verification gives a Halt error and a failed upload a
\* Retry error; when an output failed the job returns one of these errors and
\* deleteBlock is called for no input, so none is marked for deletion.
C20_FinalizeUpload ==
    /\ [](/\ 0 \notin bktBlocks \cup bktPartial
          /\ \A i \in 1..Len(up) :
                /\ compIDs[i] = 0 => up[i].at \in {"none", "skip", "ctx"}
                /\ compIDs[i] \in bktBlocks \cup bktPartial => up[i].at = "upload"
                /\ up[i].at = "verify" =>
                      up[i].st = "err" /\ IsHaltError(up[i].e) /\ ~IsRetryError(up[i].e)
                /\ up[i].at = "upload" /\ up[i].st = "err" =>
                      IsRetryError(up[i].e) /\ ~IsHaltError(up[i].e)
          /\ UpErrors # {} =>
                /\ jpc \in {"upload", "done"}
                /\ bktDelMarks = {} /\ delTried = {}
                /\ jpc = "done" => /\ rerr \in UpErrors
                                   /\ ~shouldRerun /\ retIDs = << >>)
    /\ [][\A i \in 1..Len(up) :
             up'[i].at = "upload" /\ up[i].at # "upload" =>
                /\ compIDs[i] # 0
                /\ up[i].st = "pending"
                /\ up'[i].st = "verified"]_vars
    /\ [][\A i \in 1..Len(up) :
             compIDs[i] \in (bktBlocks' \cup bktPartial') \ (bktBlocks \cup bktPartial) =>
                up[i].st = "verified"]_vars

\* C20 witness: of two shards the first failed its index verification and the
\* second was uploaded; the job returned the Halt error and marked no input.
C20_Witness ==
    /\ jpc = "done"
    /\ Len(up) = 2
    /\ up[1].at = "verify"
    /\ up[2].st = "uploaded"
    /\ compIDs[2] \in bktBlocks
    /\ IsHaltError(rerr)
    /\ bktDelMarks = {}


----------------------------------------------------------------------------
(***************************************************************************)
(* C14: one merge of a plan across the instances.                         *)
(***************************************************************************)

\* Instance i uploaded an output for its plan.
InstUploaded(i) == inst[i].out # 0 /\ inst[i].out \in bktBlocks

\* C14: with several compactor instances on the same bucket, no two instances
\* both upload an output for the same plan of the same job key.
C14_OneMergePerPlan ==
    \A i, j \in Instances :
        i # j /\ InstUploaded(i) /\ InstUploaded(j) /\ inst[i].key = inst[j].key
            => inst[i].plan # inst[j].plan

\* Each instance that uploaded an output had ownJob answer (true, nil) in the
\* worker's check, and two instances that uploaded for the same job key passed
\* that check in different epochs of the ownership.
UploadersOwnedAtCheck ==
    \A i, j \in Instances :
        i # j /\ InstUploaded(i) /\ InstUploaded(j) /\ inst[i].key = inst[j].key
            => inst[i].at # inst[j].at


----------------------------------------------------------------------------
(***************************************************************************)
(* C21: recovery from an Issue347 error in the worker.                    *)
(***************************************************************************)

\* The worker has finished with the result it held.
Handled == hpc \in {"next", "sent", "panic"}

\* The worker held a job error of the Issue347 kind.
Issue347Job == hpc \notin {"idle", "run"} /\ IsIssue347Error(hres.e)

\* C21: a worker whose job failed with an Issue347 error runs RepairIssue347,
\* and runs it for no other result.  When the repair returned nil, nothing is
\* sent on errChan, finishedAllJobs is false and the worker is back at the
\* range over jobChan (or past it, the channel being closed).  When the repair returned an error, the worker sends the
\* job's own error, wrapped with the job key, and returns; finishedAllJobs is
\* left as it was.  (Stated while the Scheduler waits for the workers.)
C21_Issue347Recovery ==
    /\ hpc \notin {"idle", "run", "ret"} =>
          ((rpc # "idle") <=> Issue347Job)
    /\ Issue347Job /\ cpc = "wait" /\ RepairEnded /\ rperr = Nil /\ hpc # "repair" =>
          /\ hpc = "next"
          /\ errChan = << >>
          /\ ~finishedAllJobs
          /\ wpc[Handler] \in {"recv", "closed"}
    /\ Issue347Job /\ cpc = "wait" /\ RepairEnded /\ rperr # Nil /\ Handled =>
          /\ hpc = "sent"
          /\ errChan = << Wrapf(hres.e, KeyText(wjob[Handler].key)) >>
          /\ Tail(errChan[1]) = hres.e
          /\ errChan[1] # Wrapf(rperr, KeyText(wjob[Handler].key))
          /\ wpc[Handler] = "sent"
          /\ finishedAllJobs

\* C21 witness: the repair failed and the worker has sent the job's error.
C21_Witness ==
    /\ Issue347Job
    /\ hpc = "sent"
    /\ cpc = "wait"
    /\ rperr # Nil
    /\ Len(errChan) = 1

----------------------------------------------------------------------------
(***************************************************************************)
(* C22: the order of RepairIssue347.                                      *)
(***************************************************************************)

\* The order in which RepairIssue347 passes through its operations, and the
\* return each operation may lead to.
RepairOrder ==
    { <<"start", "download">>, <<"download", "meta">>, <<"meta", "repair">>,
      <<"repair", "verify">>, <<"verify", "upload">>, <<"upload", "mark">>,
      <<"mark", "ret_nil">>,
      <<"start", "ret_arg">>, <<"start", "ret_tmpdir">>,
      <<"download", "ret_download">>, <<"meta", "ret_meta">>,
      <<"repair", "ret_repair">>, <<"verify", "ret_verify">>,
      <<"upload", "ret_upload">>, <<"mark", "ret_mark">> }

\* RepairIssue347 returned an error from an operation before the mark.
RepairFailedEarly ==
    rpc \in {"ret_arg", "ret_tmpdir", "ret_download", "ret_meta", "ret_repair",
             "ret_verify", "ret_upload"}

\* C22: RepairIssue347 goes through download, repair, verify, upload, mark in
\* that order.  The broken block bears a deletion mark only once the repaired
\* block, past its index verification, is in the bucket; the repaired block is
\* in the bucket only past its verification.  When an operation before the
\* mark failed, an error is returned, the broken block is not marked and no
\* repaired block is in the bucket.  Called with an error that is not an
\* Issue347 error, it returns an error and the bucket is as it was.
C22_RepairOrder ==
    /\ [][rpc' # rpc /\ rpc # "idle" => <<rpc, rpc'>> \in RepairOrder]_vars
    /\ [](rpc # "idle" =>
            /\ bktDelMarks # {} =>
                  /\ rpc = "ret_nil"
                  /\ bktDelMarks = {IssueID(issue347Err)}
                  /\ resid \in bktBlocks
            /\ bktBlocks # BlockIDs =>
                  /\ rpc \in {"mark", "ret_mark", "ret_nil"}
                  /\ resid \notin BlockIDs
                  /\ bktBlocks = BlockIDs \cup {resid}
            /\ RepairFailedEarly =>
                  /\ rperr # Nil
                  /\ bktDelMarks = {}
                  /\ bktBlocks = BlockIDs
            /\ RepairEnded /\ ~IsIssue347Error(issue347Err) =>
                  /\ rpc = "ret_arg"
                  /\ rperr # Nil
                  /\ bktBlocks = BlockIDs /\ bktPartial = {}
                  /\ bktDelMarks = {} /\ bktNoCompact = {})

\* C22 witness: a direct call of RepairIssue347 returned nil; the repaired
\* block is uploaded and the broken one marked.
C22_Witness ==
    /\ hpc = "idle"
    /\ rpc = "ret_nil"
    /\ IsIssue347Error(issue347Err)
    /\ resid \in bktBlocks
    /\ IssueID(issue347Err) \in bktDelMarks


----------------------------------------------------------------------------
(***************************************************************************)
(* C23: out-of-order chunks in the worker.                                *)
(***************************************************************************)

\* The worker held a job error of the out-of-order kind.
OutOfOrderJob == hpc \notin {"idle", "run"} /\ IsOutOfOrderChunkError(hres.e)

\* What the worker sends for the job error it held.
JobFailure == Wrapf(hres.e, KeyText(wjob[Handler].key))

\* C23: a no-compact mark is written only for a job that failed with an
\* out-of-order error while skipBlocksWithOutOfOrderChunks is set, and for the
\* block of that error alone.  With the mark written, nothing is sent on
\* errChan and finishedAllJobs is false.  With the option off, or the mark not
\* written, the job's error is sent on errChan, and Compact, once the workers
\* have ended, returns the multi-error holding it.  The type assertion of line
\* 940 never panics.
C23_OutOfOrder ==
    /\ hpc # "panic"
    /\ bktNoCompact # {} =>
          /\ OutOfOrderJob
          /\ skipOOO
          /\ bktNoCompact = {Head(Cause(hres.e)).id}
    /\ OutOfOrderJob /\ Handled /\ cpc = "wait" /\ bktNoCompact # {} =>
          /\ hpc = "next"
          /\ errChan = << >>
          /\ ~finishedAllJobs
    /\ OutOfOrderJob /\ Handled /\ cpc = "wait" /\ (~skipOOO \/ bktNoCompact = {}) =>
          /\ hpc = "sent"
          /\ errChan = << JobFailure >>
          /\ finishedAllJobs
    /\ OutOfOrderJob /\ hpc = "sent" /\ cpc # "wait" =>
          /\ cpc = "ret_errs"
          /\ crerr = MultiErr(<< JobFailure >>)
    /\ OutOfOrderJob /\ hpc = "next" /\ cpc # "wait" =>
          /\ cpc = "sync"
          /\ crerr = Nil

\* C23 witness: the option is set, the mark was written and the worker went on.
C23_Witness ==
    /\ OutOfOrderJob
    /\ skipOOO
    /\ hpc = "next"
    /\ cpc = "wait"
    /\ bktNoCompact = {OutOfOrderID(hres.e)}


----------------------------------------------------------------------------
(***************************************************************************)
(* C24: the lifetime of the pool.                                         *)
(***************************************************************************)

\* Compact has returned; cpc names the return statement.
CompactReturned ==
    cpc \in {"ret_sync", "ret_gc", "ret_groups", "ret_own", "ret_errs", "ret_nil"}

\* C24: once Compact has returned, by whichever return statement, every worker
\* of its last iteration has terminated: none is still in the range over
\* jobChan.
C24_PoolLifetime ==
    CompactReturned => \A w \in Workers : wpc[w] \in {"sent", "closed"}

\* Compact returned early and its workers are blocked on jobChan for good.
WorkersLeftBlocked ==
    /\ cpc \in {"ret_sync", "ret_gc", "ret_groups", "ret_own"}
    /\ \A w \in Workers : wpc[w] = "recv"


----------------------------------------------------------------------------
(***************************************************************************)
(* C25: errors of the ownership function.                                 *)
(***************************************************************************)

\* C25: an error of ownJob never makes Compact fail: when Compact returns an
\* error, it is one of SyncMetas, GarbageCollect, Grouper.Groups or of the
\* jobs that ran, never the return of filterOwnJobs.
C25_OwnErrorSkips ==
    CompactReturned /\ crerr # Nil =>
        cpc \in {"ret_sync", "ret_gc", "ret_groups", "ret_errs"}

\* Compact returned the error of ownJob from filterOwnJobs, with no job handed
\* to a worker.
OwnErrorReturned ==
    /\ cpc = "ret_own"
    /\ crerr = Wrap(Plain)
    /\ \A w \in Workers : wpc[w] = "recv"


----------------------------------------------------------------------------
(***************************************************************************)
(* C26, C27: NoCompactionMarkFilter.Filter.                               *)
(***************************************************************************)

\* The keys of the metas map Filter was called with.
FilterInput == DOMAIN probed

\* The input blocks whose marker was read with the outcome o.
ProbedAs(o) == { id \in FilterInput : probed[id] = o }

\* C26: a block whose marker is missing or cannot be parsed is not recorded in
\* the map and not removed from the metas, and Filter returns an error exactly
\* when the read of some marker failed with another error.
C26_MarkerTolerance ==
    /\ fpc \in {"foreach", "done"} =>
          \A id \in ProbedAs("notfound") \cup ProbedAs("unmarshal") :
              /\ id \notin noCompactMarkedMap
              /\ id \in filterMetas
    /\ fpc = "done" => (fret # Nil <=> ProbedAs("other") # {})

\* C26 witness: Filter returned nil after it met a missing marker and an
\* unparseable one.
C26_Witness ==
    /\ fpc = "done"
    /\ fret = Nil
    /\ ProbedAs("notfound") # {}
    /\ ProbedAs("unmarshal") # {}

\* C27: when Filter has returned nil, the map holds exactly the input blocks
\* with a parseable marker, whatever it held before the call and whatever the
\* number of goroutines and their interleaving; the metas are the input less
\* those blocks when removeNoCompactBlocks is set, and the input otherwise.
C27_FilterResult ==
    fpc = "done" /\ fret = Nil =>
        /\ noCompactMarkedMap = FilterInput \cap bktNoCompact
        /\ filterMetas = IF removeNoCompactBlocks THEN FilterInput \ bktNoCompact
                         ELSE FilterInput

\* C27 witness: two goroutines, removal configured, every input block marked.
C27_Witness ==
    /\ fpc = "done"
    /\ fret = Nil
    /\ Len(fgo) = 2
    /\ removeNoCompactBlocks
    /\ Cardinality(noCompactMarkedMap) = 2
    /\ filterMetas = {}


----------------------------------------------------------------------------
(***************************************************************************)
(* C28: deletion marks under cancellation.                                *)
(***************************************************************************)

\* The innermost error of e is the context's own error.
IsCtxErr(e) == e # Nil /\ e[Len(e)].t = "ctx"

\* The garbage IDs GarbageCollect's loop has not handled.
GarbageLeft == { garbageIDs[i] : i \in gi..Len(garbageIDs) }

\* C28: no write of a deletion mark ends with the error of the caller's
\* context: not the one of RepairIssue347, not one of the retire step of
\* runCompactionJob.  GarbageCollect returns the context's error only from
\* its test between two marks: then the garbage IDs handled so far are all
\* marked and out of the snapshot, and each of the others is marked and in
\* the snapshot exactly as it was when GarbageCollect began.
C28_DetachedMarks ==
    /\ [][jpc = "retire" /\ jpc' = "done" => ~IsCtxErr(rerr')]_vars
    /\ [](rpc = "ret_mark" => ~IsCtxErr(rperr))
    /\ [](cpc = "ret_gc" /\ IsCtxErr(crerr) =>
             /\ ctxDone
             /\ crerr = Wrap(CtxErr)
             /\ \A id \in GarbagePrefix(gi - 1) :
                   id \in bktDelMarks /\ id \notin blocks
             /\ \A id \in GarbageLeft :
                   /\ id \in bktDelMarks <=> id \in gcStart.marks
                   /\ id \in blocks <=> id \in gcStart.blocks)

\* C28 witness: GarbageCollect was cancelled after its first mark; the first
\* garbage ID is marked and out of the snapshot, the second untouched.
C28_Witness ==
    /\ cpc = "ret_gc"
    /\ ctxDone
    /\ gi = 2
    /\ Len(garbageIDs) = 2
    /\ garbageIDs[1] \in bktDelMarks \ gcStart.marks
    /\ garbageIDs[1] \in gcStart.blocks \ blocks
    /\ garbageIDs[2] \in blocks
    /\ garbageIDs[2] \notin bktDelMarks


----------------------------------------------------------------------------
(***************************************************************************)
(* C29: the error channel.                                                *)
(***************************************************************************)

\* The workers that returned after a send on errChan.
Senders == { w \in Workers : wpc[w] = "sent" }

\* No worker is inside the ownership check or runCompactionJob.
JobsFinished == \A w \in Workers : wpc[w] \notin {"check", "run"}

\* C29: the errors buffered in errChan and those the Scheduler has taken out
\* of it are one per worker that sent and returned, and such a worker holds no
\* job; errChan never holds more than Concurrency errors and no worker is
\* blocked in its send.  Once jobChan is closed and the running jobs have
\* finished, every worker has returned or can leave its range over jobChan,
\* and once all have returned the Scheduler's step after wg.Wait() can be
\* taken (unless the bound on the iterations stops the model).
C29_ErrChanNeverBlocks ==
    /\ Len(errChan) + Len(jobErrs) = Cardinality(Senders)
    /\ \A w \in Senders : wjob[w] = NoJob
    /\ Len(errChan) <= Concurrency
    /\ \A w \in Workers : wpc[w] # "blocked"
    /\ cpc = "wait" /\ JobsFinished =>
          \A w \in Workers : wpc[w] \in {"sent", "closed"} \/ ENABLED WorkerExit(w)
    /\ cpc = "wait" /\ Joined => iter = MaxIter \/ ENABLED Join

\* C29 witness: every worker of the pool has sent an error and returned, the
\* Scheduler has taken none of them yet: errChan is full.
C29_Witness ==
    /\ cpc = "wait"
    /\ Len(errChan) = Concurrency
    /\ Senders = Workers
    /\ jobErrs = << >>


----------------------------------------------------------------------------
(***************************************************************************)
(* C30: one worker per job.                                               *)
(***************************************************************************)

\* The workers that hold a job: in the ownership check or in runCompactionJob.
Holders == { w \in Workers : wpc[w] \in {"check", "run"} }

\* Worker w takes a job from jobChan in this step.
Receives(w) == w \notin Holders /\ w \in Holders'

\* C30: the jobs of an iteration have pairwise different keys; a worker that
\* holds a job holds one the range over jobs has passed, two workers never
\* hold jobs of the same key, and a worker that holds none has no job.  A
\* step hands at most one job to one worker, the one the range is at, and
\* moves the range past it, so that no job is handed out twice.
C30_OneWorkerPerJob ==
    /\ [](/\ \A i, j \in 1..Len(jobs) : jobs[i].key = jobs[j].key => i = j
          /\ \A w \in Holders : \E i \in 1..(ji - 1) : jobs[i] = wjob[w]
          /\ \A v, w \in Holders : wjob[v].key = wjob[w].key => v = w
          /\ \A w \in Workers \ Holders : wjob[w] = NoJob)
    /\ [][\A w \in Workers :
             Receives(w) => /\ wjob'[w] = jobs[ji]
                            /\ ji' = ji + 1
                            /\ jobs' = jobs
                            /\ \A v \in Workers \ {w} : ~Receives(v)]_vars

\* C30 witness: every worker of the pool runs a job, each one of its own.
C30_Witness ==
    /\ \A w \in Workers : wpc[w] = "run"
    /\ \A v, w \in Workers : wjob[v].key = wjob[w].key => v = w
    /\ ji = Concurrency + 1


----------------------------------------------------------------------------
(***************************************************************************)
(* C31: the two classifications exclude each other.                       *)
(***************************************************************************)

\* The errors one more constructor, message wrapper or multi-error makes of
\* e, together with e itself.
BuiltFrom(e) ==
    { e, halt(e), retry(e), issue347Error(e, 1), outOfOrderChunkError(e, 1),
      Wrap(e), retry(Wrap(e)), Wrap(halt(e)),
      MultiErr(MultiAdd(MultiAdd(<< >>, e), retry(e))),
      MultiErr(MultiAdd(MultiAdd(<< >>, halt(e)), retry(Plain))),
      NonNilMultiError(<< e, NonNilMultiError(<< retry(e) >>) >>) }

\* C31: no error is both Halt and Retry: not the error classified, not what
\* retry or a message wrapper made of it, and not an error built from either
\* by one more constructor, wrapper or multi-error.
C31_HaltRetryExclusive ==
    op # "none" =>
        /\ ~(cls.halt /\ cls.retry)
        /\ \A e \in BuiltFrom(err) \cup BuiltFrom(res) :
              ~(IsHaltError(e) /\ IsRetryError(e))

\* C31 witness: retry was applied to a multi-error with a Halt and a Retry
\* child; the result is Halt and not Retry.
C31_Witness ==
    /\ op = "retry"
    /\ isMulti
    /\ SomeChild("halt")
    /\ SomeChild("retry")
    /\ cls.halt
    /\ ~cls.retry


----------------------------------------------------------------------------
(***************************************************************************)
(* C32, C33, C34: the continuous test's write loop.                       *)
(***************************************************************************)

Aligned(t) == t % WriteInterval = 0

\* The write-interval timestamps from a to b.
Intervals(a, b) == { t \in a..b : Aligned(t) }

\* C32: queryMinTime and queryMaxTime are both zero, or both are aligned
\* non-zero timestamps with queryMinTime <= queryMaxTime <=
\* lastWrittenTimestamp and every write-interval timestamp between them was
\* answered with 2xx and no error; a range query stays inside such a range.
C32_NoGaps ==
    /\ queryMinTime = 0 <=> queryMaxTime = 0
    /\ queryMinTime # 0 =>
          /\ queryMinTime <= queryMaxTime
          /\ queryMaxTime <= lastWrittenTimestamp
          /\ Aligned(queryMinTime)
          /\ Aligned(queryMaxTime)
          /\ Intervals(queryMinTime, queryMaxTime) \subseteq accepted
    /\ queried # << >> =>
          /\ Aligned(queried[1])
          /\ Aligned(queried[2])
          /\ Intervals(queried[1], queried[2]) \subseteq accepted

\* C32 witness: after a rejected write the range restarted and has grown to
\* two intervals, and a range query over both was run.
C32_Witness ==
    /\ tpc = "query"
    /\ queryMinTime > WriteInterval
    /\ queryMaxTime = queryMinTime + WriteInterval
    /\ lastWrittenTimestamp = queryMaxTime
    /\ queryMinTime - WriteInterval \notin accepted
    /\ queried = << queryMinTime, queryMaxTime >>


\* The write loop is about to call WriteSeries.
Writes == tpc = "write" /\ nextWriteTimestamp(lastWrittenTimestamp, now) <= now

\* A 4xx status.
Status4xx(code) == code \in 400..499

\* The write was answered with a 2xx status and no error.
Succeeded(code, e) == code \in 200..299 /\ ~e

\* C33: a write answered with a 4xx status is recorded as
\* lastWrittenTimestamp, zeroes queryMinTime and queryMaxTime and leaves Run
\* in its write loop, whose next write, if now allows one, is for the
\* following interval; the write that next succeeds sets both query times to
\* its own timestamp.
C33_RejectedWrite ==
    /\ [][Writes /\ Status4xx(statusCode') =>
             /\ lastWrittenTimestamp' = timestamp'
             /\ queryMinTime' = 0
             /\ queryMaxTime' = 0
             /\ tpc' = "write"
             /\ now' = now]_vars
    /\ [][Writes /\ Status4xx(statusCode) /\ lastWrittenTimestamp = timestamp =>
             timestamp' = timestamp + WriteInterval]_vars
    /\ [][Writes /\ queryMinTime = 0 /\ Succeeded(statusCode', writeErr') =>
             /\ queryMinTime' = timestamp'
             /\ queryMaxTime' = timestamp']_vars

\* C33 witness: in one Run a write was rejected with 4xx after an accepted
\* one, and the write of the next interval was accepted.
C33_Witness ==
    /\ tpc = "write"
    /\ timestamp - WriteInterval \notin accepted
    /\ timestamp - 2 * WriteInterval \in accepted
    /\ timestamp \in accepted
    /\ queryMinTime = timestamp
    /\ queryMaxTime = timestamp
    /\ lastWrittenTimestamp = timestamp
    /\ now >= timestamp


\* The write failed otherwise than with a 4xx status: another status that is
\* not 2xx, or an error.
FailedNot4xx(code, e) == ~Status4xx(code) /\ ~Succeeded(code, e)

\* Run leaves its write loop.
WriteLoopEnds == tpc = "write" ~> tpc = "query"

\* C34: a write that fails with a status that is neither 2xx nor 4xx, or with
\* an error, ends the write loop of this Run and leaves lastWrittenTimestamp,
\* queryMinTime and queryMaxTime as they were; when a write had been recorded
\* before, the next write, in a later Run, is for the same timestamp.  The
\* write loop of a Run comes to its end.
C34_FailedWrite ==
    /\ [][Writes /\ FailedNot4xx(statusCode', writeErr') =>
             /\ tpc' = "query"
             /\ UNCHANGED <<lastWrittenTimestamp, queryMinTime, queryMaxTime>>]_vars
    /\ [][Writes /\ lastWrittenTimestamp # 0 /\ FailedNot4xx(statusCode, writeErr) =>
             timestamp' = timestamp]_vars
    /\ WriteLoopEnds

\* C34 witness: after an accepted write the write of the next interval failed
\* with a 5xx status, and Run has left its loop with the range unchanged.
C34_Witness ==
    /\ tpc = "query"
    /\ statusCode = 500
    /\ lastWrittenTimestamp # 0
    /\ timestamp = lastWrittenTimestamp + WriteInterval
    /\ timestamp <= now
    /\ queryMaxTime = lastWrittenTimestamp


----------------------------------------------------------------------------
(***************************************************************************)
(* C35: the counters of the runs.                                         *)
(***************************************************************************)

\* The runs that were started and are not yet counted as completed or failed.
RunsOpen == IF hpc \in {"run", "ret"} THEN 1 ELSE 0

\* The worker handles the result of runCompactionJob in this step.
Counts == hpc = "ret" /\ hpc' # "ret"

\* Every output of the job that is not the zero ULID is uploaded, and there
\* is one.
AllUploaded ==
    /\ hasNonZeroULIDs(compIDs)
    /\ \A i \in 1..Len(compIDs) : compIDs[i] # 0 => OutputUploaded(i)

=============================================================================
